---- MODULE Spec2Model ----
(***************************************************************************)
(* Model of the indicator and statistics core of Depo-Data:                *)
(*   src/data/processor.py        DataProcessor                            *)
(*   src/Database/etl_pipeline.py TechnicalIndicatorCalculator             *)
(*                                                                         *)
(* Prices are finite numbers.  They are modelled as exact rationals        *)
(* [n |-> numerator, d |-> denominator > 0] in lowest terms; the square    *)
(* root taken by a standard deviation is kept symbolically (see Surd).     *)
(* Python's None, pandas' NaN and the IEEE infinity are distinct values.   *)
(* Indices in the source are 0-based; sequences here are 1-based, so the   *)
(* source's index i is position i + 1.                                     *)
(***************************************************************************)
EXTENDS Integers, Sequences, FiniteSets, Bags, TLC

VARIABLES
    data_points,   \* the caller's list of data points (dicts with date, close)
    arg_period,    \* the caller's window / period argument
    call,          \* the operation the caller invoked last ("none" before any)
    raised,        \* the exception that call ended with, "none" when it returned
    ret,           \* the value that call returned
    df,            \* the caller's price frame (pandas DataFrame) of the ETL side
    indicators,    \* the frame returned by calculate_all_indicators
    arg_base_date, \* the base_date argument of the last normalize_prices
    arg_asset_id,  \* the asset_id argument of the last insert
    daily_prices,  \* the rows of table daily_prices (a bag of rows)
    technical_indicators,  \* the rows of table technical_indicators
    _metadata,     \* DataLoader._metadata: None until metadata.json is loaded
    _cache,        \* DataLoader._cache: the data of the symbols loaded so far
    files,         \* the data directory: what each file holds
    request,       \* the arguments of the last DataLoader call or API request
    response,      \* the HTTP response of the last API request
    pc,            \* where run_full_pipeline / _process_symbol stands
    position,      \* how many symbols the loops of run_full_pipeline are past
    conn,          \* DatabaseManager.conn: none, open, aborted or closed
    etl_logs,      \* the rows of table etl_logs, in insertion order
    assets,        \* the rows of table assets
    processing     \* the symbols _process_symbol was entered for, in order

\* the database: the two tables and the asset the last insert was made for
db == <<arg_asset_id, daily_prices, technical_indicators>>

\* the API side: the DataLoader singleton, its files, and the last exchange
api == <<_metadata, _cache, files, request, response>>

\* the ETL run
etl == <<pc, position, conn, etl_logs, assets, processing>>

vars == <<data_points, arg_period, arg_base_date, call, raised, ret, df,
          indicators, db, api, etl>>

----------------------------------------------------------------------------
(* Bounds of the explored inputs *)

MaxLen == 3        \* longest list of data points
MaxPeriod == 3     \* largest window / period argument

\* close prices the inputs are drawn from
Closes == {-5, 0, 5, 90, 100, 110}

\* dates are day numbers, strictly ascending within a series: the point at
\* position i is dated DateAt(i), every other day
DateAt(i) == 2 * i

MaxMacdLen == 2    \* longest series the MACD caller passes
MaxFlat == 20      \* longest run of equal bars a price frame starts with
MaxTail == 1       \* most bars of a price frame after that run

\* the bars (High, Low, Close) price frames are built from
Bars == {[High |-> 2, Low |-> 2, Close |-> 2],
         [High |-> 3, Low |-> 1, Close |-> 2],
         [High |-> 4, Low |-> 2, Close |-> 3]}

\* the bars the callers of calculate_atr build their frames from: the bars
\* above, a bar that opens above the previous range and another flat bar
AtrBars == Bars \cup {[High |-> 9, Low |-> 7, Close |-> 8],
                      [High |-> 5, Low |-> 5, Close |-> 5]}

Symbols == {"GC=F"}

\* the index of a price frame holds timestamps, counted in hours: midnight of
\* day d is HoursPerDay * d
HoursPerDay == 24
Midnight(d) == HoursPerDay * d

\* the rows (Open, High, Low, Close, Volume, Adj Close) the source delivers:
\* prices as integers, Volume and Adj Close as floats that may be missing
StoreBarA == [Open |-> 2, High |-> 3, Low |-> 1, Close |-> 2,
              Volume |-> [n |-> 1000, d |-> 1], AdjClose |-> [n |-> 2, d |-> 1]]
StoreBarB == [Open |-> 2, High |-> 4, Low |-> 2, Close |-> 3,
              Volume |-> [k |-> "nan"], AdjClose |-> [n |-> 5, d |-> 2]]

\* the assets rows are persisted for
AssetIds == {1, 2}

\* metadata.json: the symbols the API serves and the path of each data file
MetadataJson ==
    [symbols |-> <<[symbol |-> "AAPL", path |-> "AAPL.json"],
                   [symbol |-> "XAU", path |-> "XAU.json"]>>]

\* the symbols requests are made for: the listed ones and an unknown one
RequestSymbols == {"AAPL", "XAU", "ZZZ"}

\* what a file of the data directory may be: absent, present with a text that
\* is not JSON, present but closed to the process, or a JSON document
Missing == [k |-> "missing"]
NotJson == [k |-> "not json"]
Denied == [k |-> "denied"]
Json(document) == [k |-> "json", json |-> document]

\* the documents a data file may hold: three points in date order, and two
\* points out of date order
DataDocuments ==
    {[data |-> <<[date |-> DateAt(1), close |-> 100],
                 [date |-> DateAt(2), close |-> 110],
                 [date |-> DateAt(3), close |-> 90]>>],
     [data |-> <<[date |-> DateAt(2), close |-> 5],
                 [date |-> DateAt(1), close |-> 100]>>]}

\* the start_date / end_date arguments: absent, the date of the second point
\* and the day after it
DateFilters == {[k |-> "None"], [k |-> "date", date |-> DateAt(2)],
                [k |-> "date", date |-> DateAt(2) + 1]}

\* the `symbols` query strings of /commodities/compare, as their tokens:
\* "", "AAPL", "AAPL, XAU", "XAU," and "AAPL,ZZZ"
CompareQueries ==
    {<<>>, <<"AAPL">>, <<"AAPL", ",", " ", "XAU">>, <<"XAU", ",">>,
     <<"AAPL", ",", "ZZZ">>}

\* the std_dev argument of calculate_bollinger_bands: its default, which is
\* also what calculate_all_indicators passes
DefaultStdDev == 2

----------------------------------------------------------------------------
(* Exact arithmetic *)

Abs(x) == IF x < 0 THEN -x ELSE x

RECURSIVE GCD(_, _)
GCD(a, b) == IF b = 0 THEN a ELSE GCD(b, a % b)

\* the rational n/d (d # 0) in lowest terms with a positive denominator
Rat(n, d) ==
    LET g == GCD(Abs(n), Abs(d))
        s == IF d < 0 THEN -1 ELSE 1
    IN  [n |-> s * (n \div g), d |-> s * (d \div g)]

Zero == [n |-> 0, d |-> 1]
Hundred == [n |-> 100, d |-> 1]

RAdd(x, y) ==
    LET l == (x.d \div GCD(x.d, y.d)) * y.d
    IN  Rat(x.n * (l \div x.d) + y.n * (l \div y.d), l)
RNeg(x) == [n |-> -x.n, d |-> x.d]
RSub(x, y) == RAdd(x, RNeg(y))
RMul(x, y) ==
    LET g1 == GCD(Abs(x.n), y.d)
        g2 == GCD(Abs(y.n), x.d)
    IN  Rat((x.n \div g1) * (y.n \div g2), (x.d \div g2) * (y.d \div g1))
\* x / y for y # 0
RDiv(x, y) == RMul(x, Rat(y.d, y.n))
RLt(x, y) == x.n * y.d < y.n * x.d
RLe(x, y) == x.n * y.d <= y.n * x.d
IsRat(x) == DOMAIN x = {"n", "d"}

\* a + c * sqrt(r) for rationals a, c and r >= 0, the square root left symbolic
Surd(a, c, r) == [a |-> a, c |-> c, r |-> r]
SurdZero == Surd(Zero, Zero, Zero)
Sqrt(r) == IF r = Zero THEN SurdZero ELSE Surd(Zero, Rat(1, 1), r)
\* s * k and s + q for rationals k, q
SurdScale(s, k) ==
    IF k = Zero THEN SurdZero ELSE Surd(RMul(s.a, k), RMul(s.c, k), s.r)
SurdPlus(s, q) == Surd(RAdd(s.a, q), s.c, s.r)
\* the square of s when s has no rational part
SurdSquare(s) == RMul(RMul(s.c, s.c), s.r)
SurdIsZero(s) == s.a = Zero /\ SurdSquare(s) = Zero

\* float(x) of an integer price: the same number
ToFloat(x) == Rat(x, 1)

None == [k |-> "None"]     \* Python's None
NaN == [k |-> "nan"]       \* pandas' missing value
PInf == [k |-> "inf"]      \* IEEE +infinity
NInf == [k |-> "-inf"]     \* IEEE -infinity

RECURSIVE SumSeq(_)
SumSeq(s) == IF s = <<>> THEN Zero ELSE RAdd(s[1], SumSeq(Tail(s)))

\* Python's s[lo:hi] for 0 <= lo <= hi <= len(s)
Slice(s, lo, hi) == SubSeq(s, lo + 1, hi)

----------------------------------------------------------------------------
(* Python's statistics module *)

\* statistics.mean of a non-empty list
mean(xs) == RDiv(SumSeq(xs), Rat(Len(xs), 1))

\* sum of squared deviations from the mean
SumSqDev(xs) ==
    LET m == mean(xs)
    IN  SumSeq([i \in 1 .. Len(xs) |-> RMul(RSub(xs[i], m), RSub(xs[i], m))])

\* statistics.variance: the sample variance, divisor n - 1 (n >= 2)
variance(xs) == RDiv(SumSqDev(xs), Rat(Len(xs) - 1, 1))

\* statistics.pvariance: the population variance, divisor n
pvariance(xs) == RDiv(SumSqDev(xs), Rat(Len(xs), 1))

pstdev(xs) == Sqrt(pvariance(xs))

\* statistics.stdev: square root of the sample variance
stdev(xs) == Sqrt(variance(xs))

RECURSIVE Insert(_, _)
Insert(x, s) ==
    IF s = <<>> THEN <<x>>
    ELSE IF RLe(x, s[1]) THEN <<x>> \o s
    ELSE <<s[1]>> \o Insert(x, Tail(s))

RECURSIVE sorted(_)
sorted(s) == IF s = <<>> THEN <<>> ELSE Insert(s[1], sorted(Tail(s)))

\* statistics.median of a non-empty list
median(xs) ==
    LET data == sorted(xs)
        n == Len(xs)
        i == n \div 2
    IN  IF n % 2 = 1 THEN data[i + 1]
        ELSE RDiv(RAdd(data[i], data[i + 1]), Rat(2, 1))

----------------------------------------------------------------------------
(* Python builtins on lists of numbers *)

RECURSIVE min(_)
min(xs) ==
    IF Len(xs) = 1 THEN xs[1]
    ELSE LET m == min(Tail(xs)) IN IF RLe(xs[1], m) THEN xs[1] ELSE m

RECURSIVE max(_)
max(xs) ==
    IF Len(xs) = 1 THEN xs[1]
    ELSE LET m == max(Tail(xs)) IN IF RLe(m, xs[1]) THEN xs[1] ELSE m

\* list.index(x): the lowest 0-based index holding x
IndexOfLast(xs, x) == (CHOOSE i \in 1 .. Len(xs) :
                    xs[i] = x /\ \A j \in (i + 1) .. Len(xs) : xs[j] # x) - 1
index(xs, x) == (CHOOSE i \in 1 .. Len(xs) :
                    xs[i] = x /\ \A j \in 1 .. (i - 1) : xs[j] # x) - 1

----------------------------------------------------------------------------
(* DataProcessor (src/data/processor.py) *)

\* closes = [float(point['close']) for point in data_points]
ClosesOf(points) == [i \in 1 .. Len(points) |-> ToFloat(points[i].close)]

\* dates = [point['date'] for point in data_points]
DatesOf(points) == [i \in 1 .. Len(points) |-> points[i].date]

\* the exception calculate_statistics ends with, in the order the code reaches
\* them: the empty check, then the total-change division by closes[0]
StatisticsRaisesNoEmptyCheck(points) ==
    IF points = <<>> THEN "StatisticsError"
    ELSE IF Len(points) > 1 /\ ClosesOf(points)[1] = Zero THEN "ZeroDivisionError"
    ELSE "none"
StatisticsRaisesNoLenCheck(points) ==
    IF points = <<>> THEN "ValueError"
    ELSE IF ClosesOf(points)[1] = Zero THEN "ZeroDivisionError"
    ELSE "none"
calculate_statistics_raises(points) ==
    IF points = <<>> THEN "ValueError"
    ELSE IF Len(points) > 1 /\ ClosesOf(points)[1] = Zero THEN "ZeroDivisionError"
    ELSE "none"

\* ((closes[-1] - closes[0]) / closes[0]) * 100 if len(closes) > 1 else 0.0
TotalChangePctReversed(closes) ==
    IF Len(closes) > 1
    THEN RMul(RDiv(RSub(closes[1], closes[Len(closes)]), closes[1]), Hundred)
    ELSE Zero
total_change_pct(closes) ==
    IF Len(closes) > 1
    THEN RMul(RDiv(RSub(closes[Len(closes)], closes[1]), closes[1]), Hundred)
    ELSE Zero

\* statistics.stdev(closes) if len(closes) > 1 else 0.0
StdDevPopulation(closes) == IF Len(closes) > 1 THEN pstdev(closes) ELSE SurdZero
std_dev(closes) == IF Len(closes) > 1 THEN stdev(closes) ELSE SurdZero

\* (std_dev / mean_price) * 100 if mean_price != 0 else 0.0
volatility(closes) ==
    IF mean(closes) # Zero
    THEN SurdScale(SurdScale(std_dev(closes), RDiv(Rat(1, 1), mean(closes))), Hundred)
    ELSE SurdZero

\* the dict calculate_statistics returns when it raises nothing
calculate_statistics(points, symbol) ==
    LET closes == ClosesOf(points)
        dates == DatesOf(points)
        min_price == min(closes)
        max_price == max(closes)
        min_idx == index(closes, min_price)
        max_idx == index(closes, max_price)
    IN  [symbol |-> symbol,
         mean_close |-> mean(closes),
         median_close |-> median(closes),
         std_dev |-> std_dev(closes),
         min_price |-> min_price,
         max_price |-> max_price,
         min_date |-> dates[min_idx + 1],
         max_date |-> dates[max_idx + 1],
         total_change_pct |-> total_change_pct(closes),
         volatility |-> volatility(closes)]

\* new_point = point.copy(); new_point[key] = value: the new dict holds the
\* items of point and the new item
SetItem(point, key, value) ==
    [f \in DOMAIN point \cup {key} |-> IF f = key THEN value ELSE point[f]]
\* the caller's point after these two statements: the item went to the copy
PointAliased(point, key, value) == SetItem(point, key, value)
PointAfterCopy(point, key, value) == point

\* calculate_returns divides by the previous close of every point but the first
calculate_returns_raises(points) ==
    IF \E i \in 2 .. Len(points) : points[i - 1].close = 0
    THEN "ZeroDivisionError" ELSE "none"

\* calculate_returns: a copy of every point with the field 'returns' added
calculate_returns(points) ==
    [i \in 1 .. Len(points) |->
        SetItem(points[i], "returns",
                IF i > 1
                THEN RMul(RDiv(RSub(ToFloat(points[i].close),
                                    ToFloat(points[i - 1].close)),
                               ToFloat(points[i - 1].close)), Hundred)
                ELSE Zero)]

\* the caller's list after calculate_returns: the loop reaches the points
\* before the first one whose previous close is 0
points_after_calculate_returns(points) ==
    [i \in 1 .. Len(points) |->
        IF \E j \in 2 .. i : points[j - 1].close = 0 THEN points[i]
        ELSE PointAfterCopy(points[i], "returns", calculate_returns(points)[i].returns)]

\* a base_date argument that is a date (the default is None)
BaseDate(d) == [k |-> "date", date |-> d]

\* next((p for p in data_points if p['date'] == base_date), None)
base_point(points, base_date) ==
    IF \E i \in 1 .. Len(points) : points[i].date = base_date.date
    THEN points[CHOOSE i \in 1 .. Len(points) :
                    /\ points[i].date = base_date.date
                    /\ \A j \in 1 .. (i - 1) : points[j].date # base_date.date]
    ELSE None

\* base_price = float(data_points[0]['close']) or float(base_point['close'])
base_price(points, base_date) ==
    IF base_date = None THEN ToFloat(points[1].close)
    ELSE ToFloat(base_point(points, base_date).close)

normalize_prices_raises(points, base_date) ==
    IF points = <<>> THEN "none"
    ELSE IF base_date # None /\ base_point(points, base_date) = None
         THEN "ValueError"
    ELSE IF base_price(points, base_date) = Zero THEN "ZeroDivisionError"
    ELSE "none"

\* normalize_prices: [] for an empty list, else a copy of every point with
\* the field 'normalized' = close / base_price * 100 added
normalize_prices(points, base_date) ==
    IF points = <<>> THEN <<>>
    ELSE [i \in 1 .. Len(points) |->
             SetItem(points[i], "normalized",
                     RMul(RDiv(ToFloat(points[i].close),
                               base_price(points, base_date)), Hundred))]

\* the caller's list after normalize_prices: a raise comes before any copy
points_after_normalize_prices(points, base_date) ==
    IF normalize_prices_raises(points, base_date) # "none" THEN points
    ELSE [i \in 1 .. Len(points) |->
             PointAfterCopy(points[i], "normalized",
                            normalize_prices(points, base_date)[i].normalized)]

\* calculate_moving_average: a copy of every point with the field 'ma' added
MovingAverageLate(points, window) ==
    LET closes == ClosesOf(points)
    IN  [i \in 1 .. Len(points) |->
            [date |-> points[i].date, close |-> points[i].close,
             ma |-> IF i - 1 >= window
                    THEN mean(Slice(closes, (i - 1) - window, i - 1))
                    ELSE None]]
calculate_moving_average(points, window) ==
    LET closes == ClosesOf(points)
    IN  [i \in 1 .. Len(points) |->
            [date |-> points[i].date, close |-> points[i].close,
             ma |-> IF i - 1 >= window - 1
                    THEN mean(Slice(closes, (i - 1) - window + 1, (i - 1) + 1))
                    ELSE None]]

\* the caller's list after calculate_moving_average
points_after_calculate_moving_average(points, window) ==
    [i \in 1 .. Len(points) |->
        PointAfterCopy(points[i], "ma", calculate_moving_average(points, window)[i].ma)]

----------------------------------------------------------------------------
(* IEEE arithmetic of pandas Series entries: a rational, NaN, +inf or -inf *)

IsNum(x) == x # NaN /\ x # PInf /\ x # NInf
FNeg(x) == IF x = NaN THEN NaN ELSE IF x = PInf THEN NInf
           ELSE IF x = NInf THEN PInf ELSE RNeg(x)
FAdd(x, y) ==
    IF x = NaN \/ y = NaN THEN NaN
    ELSE IF (x = PInf /\ y = NInf) \/ (x = NInf /\ y = PInf) THEN NaN
    ELSE IF x = PInf \/ y = PInf THEN PInf
    ELSE IF x = NInf \/ y = NInf THEN NInf
    ELSE RAdd(x, y)
FSub(x, y) == FAdd(x, FNeg(y))
\* x / y; yNeg tells the sign of y when y is a zero (-0.0 when TRUE)
FDivSigned(x, y, yNeg) ==
    IF x = NaN \/ y = NaN THEN NaN
    ELSE IF ~IsNum(x) /\ ~IsNum(y) THEN NaN
    ELSE IF ~IsNum(y) THEN Zero
    ELSE IF ~IsNum(x)
         THEN IF (x = PInf) = (RLt(Zero, y) \/ (y = Zero /\ ~yNeg)) THEN PInf ELSE NInf
    ELSE IF y = Zero
         THEN IF x = Zero THEN NaN
              ELSE IF RLt(Zero, x) = ~yNeg THEN PInf ELSE NInf
    ELSE RDiv(x, y)
FDiv(x, y) == FDivSigned(x, y, FALSE)
FAbs(x) == IF x = NaN THEN NaN ELSE IF ~IsNum(x) THEN PInf
           ELSE IF RLt(x, Zero) THEN RNeg(x) ELSE x

----------------------------------------------------------------------------
(* pandas Series operations; a Series is the sequence of its entries *)

\* Series.diff(): entry 0 is NaN, entry i is s[i] - s[i-1]
diff(s) == [i \in 1 .. Len(s) |-> IF i = 1 THEN NaN ELSE FSub(s[i], s[i - 1])]

\* Series.shift(): entry 0 is NaN, entry i is s[i-1]
shift(s) == [i \in 1 .. Len(s) |-> IF i = 1 THEN NaN ELSE s[i - 1]]

\* s.where(s > 0, 0) and s.where(s < 0, 0): a comparison with NaN is False,
\* so a NaN entry is replaced by 0 as well
where_positive(s) ==
    [i \in 1 .. Len(s) |-> IF IsNum(s[i]) /\ RLt(Zero, s[i]) THEN s[i] ELSE Zero]
where_negative(s) ==
    [i \in 1 .. Len(s) |-> IF IsNum(s[i]) /\ RLt(s[i], Zero) THEN s[i] ELSE Zero]

\* the entries of the window of `window` rows ending at position i, NaN dropped
RECURSIVE DropNaN(_)
DropNaN(s) ==
    IF s = <<>> THEN <<>>
    ELSE IF s[1] = NaN THEN DropNaN(Tail(s)) ELSE <<s[1]>> \o DropNaN(Tail(s))
Window(s, i, window) ==
    DropNaN(SubSeq(s, IF i - window + 1 < 1 THEN 1 ELSE i - window + 1, i))

\* s.rolling(window).mean(): min_periods = window observations are needed
rolling_mean(s, window) ==
    [i \in 1 .. Len(s) |->
        LET w == Window(s, i, window)
        IN  IF Len(w) >= window THEN mean(w) ELSE NaN]

\* s.rolling(window).std(): sample standard deviation (ddof = 1) of the window;
\* NaN when the window holds fewer than `window` or fewer than 2 observations
rolling_std(s, window) ==
    [i \in 1 .. Len(s) |->
        LET w == Window(s, i, window)
        IN  IF Len(w) >= window /\ Len(w) >= 2 THEN Sqrt(variance(w)) ELSE NaN]

\* s.ewm(span=span, adjust=False).mean() of a Series without NaN:
\* y[0] = x[0], y[t] = (1 - alpha) * y[t-1] + alpha * x[t], alpha = 2 / (span + 1)
RECURSIVE ewm_mean(_, _)
ewm_mean(s, span) ==
    IF Len(s) <= 1 THEN s
    ELSE LET alpha == Rat(2, span + 1)
             prev == ewm_mean(SubSeq(s, 1, Len(s) - 1), span)
         IN  Append(prev, RAdd(RMul(RSub(Rat(1, 1), alpha), prev[Len(prev)]),
                               RMul(alpha, s[Len(s)])))

----------------------------------------------------------------------------
(* TechnicalIndicatorCalculator (src/Database/etl_pipeline.py) *)

\* data.rolling(window=period).mean()
calculate_sma(data, period) == rolling_mean(data, period)

\* data.ewm(span=period, adjust=False).mean()
RECURSIVE EwmWithAlpha(_, _)
EwmWithAlpha(s, alpha) ==
    IF Len(s) <= 1 THEN s
    ELSE LET prev == EwmWithAlpha(SubSeq(s, 1, Len(s) - 1), alpha)
         IN  Append(prev, RAdd(RMul(RSub(Rat(1, 1), alpha), prev[Len(prev)]),
                               RMul(alpha, s[Len(s)])))
EmaWilder(data, period) == EwmWithAlpha(data, Rat(1, period))
EmaAlphaHalved(data, period) == EwmWithAlpha(data, Rat(1, period + 1))
calculate_ema(data, period) == ewm_mean(data, period)

\* gain = (delta.where(delta > 0, 0)).rolling(window=period).mean()
rsi_gain(data, period) == rolling_mean(where_positive(diff(data)), period)

\* loss = (-delta.where(delta < 0, 0)).rolling(window=period).mean()
rsi_loss(data, period) ==
    LET neg == where_negative(diff(data))
    IN  rolling_mean([i \in 1 .. Len(neg) |-> FNeg(neg[i])], period)

\* rs = gain / loss; rsi = 100 - (100 / (1 + rs)).  The negated losses of a
\* window without a loss are IEEE zeros of either sign, and the sign of their
\* rolling mean is the pandas build's: zero_loss_neg says a zero average loss
\* is -0.0, so that a positive gain over it is -inf instead of +inf.
RsiWithoutOne(data, period, zero_loss_neg) ==
    LET gain == rsi_gain(data, period)
        loss == rsi_loss(data, period)
        rs == [i \in 1 .. Len(data) |-> FDivSigned(gain[i], loss[i], zero_loss_neg)]
    IN  [i \in 1 .. Len(data) |-> FSub(Hundred, FDiv(Hundred, rs[i]))]
RsiInfiniteToNaN(data, period, zero_loss_neg) ==
    LET gain == rsi_gain(data, period)
        loss == rsi_loss(data, period)
        rs == [i \in 1 .. Len(data) |->
                 LET q == FDivSigned(gain[i], loss[i], zero_loss_neg)
                 IN  IF IsNum(q) THEN q ELSE NaN]
    IN  [i \in 1 .. Len(data) |->
            FSub(Hundred, FDiv(Hundred, FAdd(Rat(1, 1), rs[i])))]
calculate_rsi(data, period, zero_loss_neg) ==
    LET gain == rsi_gain(data, period)
        loss == rsi_loss(data, period)
        rs == [i \in 1 .. Len(data) |-> FDivSigned(gain[i], loss[i], zero_loss_neg)]
    IN  [i \in 1 .. Len(data) |->
            FSub(Hundred, FDiv(Hundred, FAdd(Rat(1, 1), rs[i])))]

\* macd = ema_12 - ema_26; signal = macd.ewm(span=9, adjust=False).mean()
MacdSignalOfPrice(data) ==
    LET ema_12 == ewm_mean(data, 12)
        ema_26 == ewm_mean(data, 26)
        macd == [i \in 1 .. Len(data) |-> FSub(ema_12[i], ema_26[i])]
    IN  [macd |-> macd, signal |-> ewm_mean(data, 9)]
calculate_macd(data) ==
    LET ema_12 == ewm_mean(data, 12)
        ema_26 == ewm_mean(data, 26)
        macd == [i \in 1 .. Len(data) |-> FSub(ema_12[i], ema_26[i])]
    IN  [macd |-> macd, signal |-> ewm_mean(macd, 9)]

\* middle = rolling mean, std = rolling std, upper / lower = middle +- std * std_dev
BollingerPopulationStd(data, period, k) ==
    LET middle == rolling_mean(data, period)
        std == [i \in 1 .. Len(data) |->
                  LET w == Window(data, i, period)
                  IN  IF Len(w) >= period THEN Sqrt(pvariance(w)) ELSE NaN]
        band(i, sign) ==
            IF middle[i] = NaN \/ std[i] = NaN THEN NaN
            ELSE SurdPlus(SurdScale(std[i], RMul(sign, k)), middle[i])
    IN  [upper |-> [i \in 1 .. Len(data) |-> band(i, Rat(1, 1))],
         middle |-> middle,
         lower |-> [i \in 1 .. Len(data) |-> band(i, Rat(-1, 1))]]
calculate_bollinger_bands(data, period, k) ==
    LET middle == rolling_mean(data, period)
        std == rolling_std(data, period)
        band(i, sign) ==
            IF middle[i] = NaN \/ std[i] = NaN THEN NaN
            ELSE SurdPlus(SurdScale(std[i], RMul(sign, k)), middle[i])
    IN  [upper |-> [i \in 1 .. Len(data) |-> band(i, Rat(1, 1))],
         middle |-> middle,
         lower |-> [i \in 1 .. Len(data) |-> band(i, Rat(-1, 1))]]

\* pd.concat([tr1, tr2, tr3], axis=1).max(axis=1): the row maximum, NaN skipped
RowMax(xs) == LET w == DropNaN(xs) IN IF w = <<>> THEN NaN ELSE max(w)

\* tr1 = high - low; tr2 = |high - close.shift()|; tr3 = |low - close.shift()|
TrueRangePropagatesNaN(high, low, close) ==
    LET prev == shift(close)
    IN  [i \in 1 .. Len(close) |->
            IF prev[i] = NaN THEN NaN
            ELSE RowMax(<<FSub(high[i], low[i]),
                          FAbs(FSub(high[i], prev[i])),
                          FAbs(FSub(low[i], prev[i]))>>)]
true_range(high, low, close) ==
    LET prev == shift(close)
    IN  [i \in 1 .. Len(close) |->
            RowMax(<<FSub(high[i], low[i]),
                     FAbs(FSub(high[i], prev[i])),
                     FAbs(FSub(low[i], prev[i]))>>)]

\* atr = tr.rolling(window=period).mean()
AtrWilderSmoothing(high, low, close, period) ==
    ewm_mean(true_range(high, low, close), 2 * period - 1)
calculate_atr(high, low, close, period) ==
    rolling_mean(true_range(high, low, close), period)

\* df[name]: one column of the frame as a Series
Column(frame, name) == [i \in 1 .. Len(frame) |-> ToFloat(frame[i][name])]
\* df.index: the timestamps of the rows
IndexOf(frame) == [i \in 1 .. Len(frame) |-> frame[i].Date]

calculate_all_indicators(frame, zero_loss_neg) ==
    LET close == Column(frame, "Close")
        high == Column(frame, "High")
        low == Column(frame, "Low")
        m == calculate_macd(close)
        bb == calculate_bollinger_bands(close, 20, Rat(2, 1))
    IN  [index |-> IndexOf(frame),
         SMA_20 |-> calculate_sma(close, 20),
         SMA_50 |-> calculate_sma(close, 50),
         SMA_200 |-> calculate_sma(close, 200),
         EMA_12 |-> calculate_ema(close, 12),
         EMA_26 |-> calculate_ema(close, 26),
         RSI_14 |-> calculate_rsi(close, 14, zero_loss_neg),
         MACD |-> m.macd,
         MACD_Signal |-> m.signal,
         BB_Upper |-> bb.upper,
         BB_Middle |-> bb.middle,
         BB_Lower |-> bb.lower,
         ATR_14 |-> calculate_atr(high, low, close, 14)]

----------------------------------------------------------------------------
(* DatabaseManager (src/Database/etl_pipeline.py).  A table is the bag of   *)
(* its rows.                                                                *)

\* date.date(): the day of a timestamp
date(timestamp) == timestamp \div HoursPerDay

\* float(x) if pd.notna(x) else None
DbFloat(x) == IF x = NaN THEN None ELSE x

\* int(x) if pd.notna(x) else None: int() truncates towards zero
DbIntValue(v) == [k |-> "int", v |-> v]
DbInt(x) ==
    IF x = NaN THEN None
    ELSE DbIntValue(IF x.n >= 0 THEN x.n \div x.d ELSE -((-x.n) \div x.d))

\* the conflict target of both statements: (asset_id, price_date)
ConflictKey(row) == <<row.asset_id, row.price_date>>

\* INSERT ... ON CONFLICT (asset_id, price_date) DO UPDATE SET col =
\* EXCLUDED.col for every other column: the row of the same key, if any, takes
\* the new values, else the row is added
OnConflictDoNothing(table, row) ==
    IF \E r \in DOMAIN table : ConflictKey(r) = ConflictKey(row) THEN table
    ELSE table (+) SetToBag({row})
OnConflictDoUpdate(table, row) ==
    LET kept == {r \in DOMAIN table : ConflictKey(r) # ConflictKey(row)}
    IN  [r \in kept |-> table[r]] (+) SetToBag({row})

\* execute_batch(cursor, query, records): the statement once per record, in order
RECURSIVE execute_batch(_, _)
execute_batch(table, records) ==
    IF records = <<>> THEN table
    ELSE execute_batch(OnConflictDoUpdate(table, records[1]), Tail(records))

\* the records insert_daily_prices builds from the rows of data
daily_price_records(data, asset_id) ==
    [i \in 1 .. Len(data) |->
        [asset_id |-> asset_id,
         price_date |-> date(data[i].Date),
         open_price |-> DbFloat(ToFloat(data[i].Open)),
         close_price |-> DbFloat(ToFloat(data[i].Close)),
         high_price |-> DbFloat(ToFloat(data[i].High)),
         low_price |-> DbFloat(ToFloat(data[i].Low)),
         volume |-> DbInt(data[i].Volume),
         adjusted_close |-> DbFloat(data[i].AdjClose)]]

\* insert_daily_prices(data, asset_id): table daily_prices after the commit
insert_daily_prices(table, data, asset_id) ==
    execute_batch(table, daily_price_records(data, asset_id))

\* the records insert_technical_indicators builds from the rows of indicators_df
technical_indicator_records(asset_id, indicators_df) ==
    [i \in 1 .. Len(indicators_df.index) |->
        [asset_id |-> asset_id,
         price_date |-> date(indicators_df.index[i]),
         sma_20 |-> DbFloat(indicators_df.SMA_20[i]),
         sma_50 |-> DbFloat(indicators_df.SMA_50[i]),
         sma_200 |-> DbFloat(indicators_df.SMA_200[i]),
         ema_12 |-> DbFloat(indicators_df.EMA_12[i]),
         ema_26 |-> DbFloat(indicators_df.EMA_26[i]),
         rsi_14 |-> DbFloat(indicators_df.RSI_14[i]),
         macd |-> DbFloat(indicators_df.MACD[i]),
         macd_signal |-> DbFloat(indicators_df.MACD_Signal[i]),
         bollinger_upper |-> DbFloat(indicators_df.BB_Upper[i]),
         bollinger_middle |-> DbFloat(indicators_df.BB_Middle[i]),
         bollinger_lower |-> DbFloat(indicators_df.BB_Lower[i]),
         atr_14 |-> DbFloat(indicators_df.ATR_14[i])]]

\* insert_technical_indicators(asset_id, indicators_df): table
\* technical_indicators after the commit
insert_technical_indicators(table, asset_id, indicators_df) ==
    execute_batch(table, technical_indicator_records(asset_id, indicators_df))

----------------------------------------------------------------------------
(* DataLoader (src/data/loader.py).  An operation gives the exception it    *)
(* raises ("none" when it returns), what it returns, and the loader's       *)
(* _metadata and _cache after it.                                           *)

Outcome(exception, value, metadata, cache) ==
    [raised |-> exception, ret |-> value, _metadata |-> metadata, _cache |-> cache]

\* what open() or json.load() raises for a file that cannot be read
read_error(file) == IF file = NotJson THEN "JSONDecodeError" ELSE "PermissionError"

\* load_metadata(): metadata.json is read once and kept
load_metadata(metadata, cache, fs) ==
    IF metadata # None THEN Outcome("none", metadata, metadata, cache)
    ELSE IF fs["metadata.json"] = Missing
         THEN Outcome("FileNotFoundError", None, metadata, cache)
    ELSE IF fs["metadata.json"] \in {NotJson, Denied}
         THEN Outcome(read_error(fs["metadata.json"]), None, metadata, cache)
    ELSE Outcome("none", fs["metadata.json"].json, fs["metadata.json"].json, cache)

\* get_symbols(): metadata.get('symbols', [])
get_symbols(metadata, cache, fs) ==
    LET m == load_metadata(metadata, cache, fs)
    IN  IF m.raised # "none" THEN m
        ELSE Outcome("none", m.ret.symbols, m._metadata, cache)

\* next((s for s in symbols if s['symbol'] == symbol), None)
symbol_info(symbols, symbol) ==
    IF \E i \in 1 .. Len(symbols) : symbols[i].symbol = symbol
    THEN symbols[CHOOSE i \in 1 .. Len(symbols) :
                     /\ symbols[i].symbol = symbol
                     /\ \A j \in 1 .. (i - 1) : symbols[j].symbol # symbol]
    ELSE None

\* load_symbol_data(symbol): the cached data, else the symbol's file is read
\* and its data cached
LoadSymbolDataUncached(symbol, metadata, cache, fs) ==
    LET syms == get_symbols(metadata, cache, fs)
        info == symbol_info(syms.ret, symbol)
    IN  IF syms.raised # "none" THEN syms
        ELSE IF info = None THEN Outcome("ValueError", None, syms._metadata, cache)
        ELSE IF fs[info.path] = Missing
             THEN Outcome("ValueError", None, syms._metadata, cache)
        ELSE IF fs[info.path] \in {NotJson, Denied}
             THEN Outcome(read_error(fs[info.path]), None, syms._metadata, cache)
        ELSE Outcome("none", fs[info.path].json, syms._metadata,
                     (symbol :> fs[info.path].json) @@ cache)
load_symbol_data(symbol, metadata, cache, fs) ==
    IF symbol \in DOMAIN cache
    THEN Outcome("none", cache[symbol], metadata, cache)
    ELSE LET syms == get_symbols(metadata, cache, fs)
             info == symbol_info(syms.ret, symbol)
         IN  IF syms.raised # "none" THEN syms
             ELSE IF info = None
                  THEN Outcome("ValueError", None, syms._metadata, cache)
             ELSE IF fs[info.path] = Missing
                  THEN Outcome("ValueError", None, syms._metadata, cache)
             ELSE IF fs[info.path] \in {NotJson, Denied}
                  THEN Outcome(read_error(fs[info.path]), None, syms._metadata,
                               cache)
             ELSE Outcome("none", fs[info.path].json, syms._metadata,
                          (symbol :> fs[info.path].json) @@ cache)

\* `if start_date`: None (and the empty string) count as absent
Given(date_filter) == date_filter # None

\* the loop of get_commodity_data: the points that are not before start_date
\* and not after end_date, in the order of data_points
RECURSIVE FilterExclusive(_, _, _)
FilterExclusive(points, start_date, end_date) ==
    IF points = <<>> THEN <<>>
    ELSE LET point_date == points[1].date
             rest == FilterExclusive(Tail(points), start_date, end_date)
         IN  IF Given(start_date) /\ point_date <= start_date.date THEN rest
             ELSE IF Given(end_date) /\ point_date >= end_date.date THEN rest
             ELSE <<points[1]>> \o rest
RECURSIVE filtered_data(_, _, _)
filtered_data(points, start_date, end_date) ==
    IF points = <<>> THEN <<>>
    ELSE LET point_date == points[1].date
             rest == filtered_data(Tail(points), start_date, end_date)
         IN  IF Given(start_date) /\ point_date < start_date.date THEN rest
             ELSE IF Given(end_date) /\ point_date > end_date.date THEN rest
             ELSE <<points[1]>> \o rest

\* get_commodity_data(commodity, start_date, end_date)
get_commodity_data(commodity, start_date, end_date, metadata, cache, fs) ==
    LET loaded == load_symbol_data(commodity, metadata, cache, fs)
    IN  IF loaded.raised # "none" THEN loaded
        ELSE Outcome("none",
                     IF Given(start_date) \/ Given(end_date)
                     THEN filtered_data(loaded.ret.data, start_date, end_date)
                     ELSE loaded.ret.data,
                     loaded._metadata, loaded._cache)

\* get_multiple_commodities(commodities, start_date, end_date): the result
\* maps each commodity to its data
RECURSIVE get_multiple_commodities(_, _, _, _, _, _)
get_multiple_commodities(commodities, start_date, end_date, metadata, cache, fs) ==
    IF commodities = <<>> THEN Outcome("none", <<>>, metadata, cache)
    ELSE LET n == Len(commodities)
             before == get_multiple_commodities(SubSeq(commodities, 1, n - 1),
                           start_date, end_date, metadata, cache, fs)
             last == get_commodity_data(commodities[n], start_date, end_date,
                           before._metadata, before._cache, fs)
         IN  IF before.raised # "none" THEN before
             ELSE IF last.raised # "none" THEN last
             ELSE Outcome("none", (commodities[n] :> last.ret) @@ before.ret,
                          last._metadata, last._cache)

\* min(dates) if dates else None (and max)
available(points, sign) ==
    IF points = <<>> THEN None
    ELSE BaseDate(CHOOSE d \in {points[i].date : i \in 1 .. Len(points)} :
                      \A i \in 1 .. Len(points) : sign * d <= sign * points[i].date)

\* get_commodity_info(commodity)
get_commodity_info(commodity, metadata, cache, fs) ==
    LET syms == get_symbols(metadata, cache, fs)
        info == symbol_info(syms.ret, commodity)
        loaded == load_symbol_data(commodity, syms._metadata, cache, fs)
    IN  IF syms.raised # "none" THEN syms
        ELSE IF info = None THEN Outcome("ValueError", None, syms._metadata, cache)
        ELSE IF loaded.raised # "none" THEN loaded
        ELSE Outcome("none",
                     [symbol |-> commodity,
                      available_from |-> available(loaded.ret.data, 1),
                      available_to |-> available(loaded.ret.data, -1),
                      data_points |-> Len(loaded.ret.data)],
                     loaded._metadata, loaded._cache)

----------------------------------------------------------------------------
(* The route handlers (src/api/routes.py) *)

\* the exceptions that `except ValueError` catches
IsValueError(exception) == exception \in {"ValueError", "JSONDecodeError"}

\* raise HTTPException(status_code=...)
HTTPException(status_code) == [exception |-> "HTTPException", status_code |-> status_code]

\* try: ... except ValueError: raise HTTPException(404)
\*          except Exception: raise HTTPException(500)
\* body_raised is what the try block raised: "none", the name of an exception
\* of the loader or the processor, or an HTTPException of the block itself.
\* What leaves the handler is the response FastAPI sends.
handler_response(body_raised) ==
    IF body_raised.exception = "none" THEN [status_code |-> 200]
    ELSE IF IsValueError(body_raised.exception) THEN [status_code |-> 404]
    ELSE [status_code |-> 500]

\* an exception of the loader or the processor, by its class name
Raised(name) == [exception |-> name]

\* symbols.split(','): the runs of tokens between the commas
RECURSIVE split(_)
split(tokens) ==
    IF \A i \in 1 .. Len(tokens) : tokens[i] # ","
    THEN <<tokens>>
    ELSE LET c == CHOOSE i \in 1 .. Len(tokens) :
                      tokens[i] = "," /\ \A j \in 1 .. (i - 1) : tokens[j] # ","
         IN  <<SubSeq(tokens, 1, c - 1)>> \o split(SubSeq(tokens, c + 1, Len(tokens)))

\* s.strip(): the text without the blanks at its ends
RECURSIVE strip(_)
strip(tokens) ==
    IF tokens = <<>> THEN ""
    ELSE IF tokens[1] = " " THEN strip(Tail(tokens))
    ELSE IF tokens[Len(tokens)] = " " THEN strip(SubSeq(tokens, 1, Len(tokens) - 1))
    ELSE tokens[1]

\* symbol_list = [s.strip() for s in symbols.split(',')]
symbol_list(symbols) ==
    LET parts == split(symbols) IN [i \in 1 .. Len(parts) |-> strip(parts[i])]

\* the try block of get_commodity_statistics up to the return statement: what
\* it raises, and the data points the statistics are returned for
statistics_body(symbol, start_date, end_date, metadata, cache, fs) ==
    LET got == get_commodity_data(symbol, start_date, end_date, metadata, cache,
                                  fs)
    IN  IF got.raised # "none"
        THEN Outcome(Raised(got.raised), None, got._metadata, got._cache)
        ELSE IF got.ret = <<>>
             THEN Outcome(HTTPException(404), None, got._metadata, got._cache)
        ELSE IF calculate_statistics_raises(got.ret) # "none"
             THEN Outcome(Raised(calculate_statistics_raises(got.ret)), None,
                          got._metadata, got._cache)
        ELSE Outcome(Raised("none"), got.ret, got._metadata, got._cache)

\* the try block of compare_commodities
compare_body(symbols, start_date, end_date, metadata, cache, fs) ==
    LET listed == symbol_list(symbols)
        got == get_multiple_commodities(listed, start_date, end_date, metadata,
                                        cache, fs)
    IN  IF Len(listed) < 2 THEN Outcome(HTTPException(400), None, metadata, cache)
        ELSE IF got.raised # "none"
             THEN Outcome(Raised(got.raised), None, got._metadata, got._cache)
        ELSE Outcome(Raised("none"), [symbols |-> listed, data |-> got.ret],
                     got._metadata, got._cache)

----------------------------------------------------------------------------
(* The callers: one action per operation of the two engines *)

\* no DataLoader call and no API request is made
LoaderUnused ==
    /\ _metadata = None
    /\ _cache = <<>>
    /\ files = <<>>
    /\ request = None
    /\ response = None

\* run_full_pipeline is not run
PipelineUnused ==
    /\ pc = "none"
    /\ position = 0
    /\ conn = "none"
    /\ etl_logs = <<>>
    /\ assets = {}
    /\ processing = <<>>

\* the lists of data points a caller may pass: up to MaxLen points
Series ==
    UNION {{[i \in 1 .. n |-> [date |-> DateAt(i), close |-> c[i]]] :
                c \in [1 .. n -> Closes]} : n \in 0 .. MaxLen}

Init ==
    /\ data_points \in Series
    /\ arg_period \in 1 .. MaxPeriod
    /\ call = "none"
    /\ raised = "none"
    /\ ret = None
    /\ df = <<>>
    /\ indicators = None
    /\ arg_base_date = None
    /\ LoaderUnused
    /\ PipelineUnused
    /\ arg_asset_id = None
    /\ daily_prices = EmptyBag
    /\ technical_indicators = EmptyBag

\* processor.calculate_statistics(data_points, symbol)
CalculateStatistics ==
    \E symbol \in Symbols :
        /\ call' = "calculate_statistics"
        /\ raised' = calculate_statistics_raises(data_points)
        /\ ret' = IF raised' = "none"
                  THEN calculate_statistics(data_points, symbol)
                  ELSE None
        /\ UNCHANGED <<data_points, arg_period, df, indicators, db, arg_base_date, api, etl>>

\* processor.calculate_moving_average(data_points, window)
CalculateMovingAverage ==
    /\ call' = "calculate_moving_average"
    /\ raised' = "none"
    /\ ret' = calculate_moving_average(data_points, arg_period)
    /\ data_points' = points_after_calculate_moving_average(data_points, arg_period)
    /\ UNCHANGED <<arg_period, df, indicators, db, arg_base_date, api, etl>>

\* TechnicalIndicatorCalculator.calculate_sma(closes, period)
CalculateSma ==
    /\ call' = "calculate_sma"
    /\ raised' = "none"
    /\ ret' = calculate_sma(ClosesOf(data_points), arg_period)
    /\ UNCHANGED <<data_points, arg_period, df, indicators, db, arg_base_date, api, etl>>

\* TechnicalIndicatorCalculator.calculate_rsi(closes, period)
CalculateRsi ==
    \E zero_loss_neg \in BOOLEAN :
    /\ call' = "calculate_rsi"
    /\ raised' = "none"
    /\ ret' = calculate_rsi(ClosesOf(data_points), arg_period, zero_loss_neg)
    /\ UNCHANGED <<data_points, arg_period, df, indicators, db, arg_base_date, api, etl>>

Next ==
    \/ CalculateStatistics
    \/ CalculateMovingAverage
    \/ CalculateSma
    \/ CalculateRsi

Spec == Init /\ [][Next]_vars

----------------------------------------------------------------------------
(* The ETL caller: a price frame grows bar by bar, and the indicator set is *)
(* computed for it.  A frame is a run of equal bars followed by at most     *)
(* MaxTail further bars.                                                    *)

\* number of leading rows of the frame equal (in High, Low, Close) to row 0
RECURSIVE FlatPrefixLen(_)
FlatPrefixLen(frame) ==
    IF frame = <<>> THEN 0
    ELSE LET n == Len(frame)
             k == FlatPrefixLen(SubSeq(frame, 1, n - 1))
         IN  IF k = n - 1 /\ frame[n].High = frame[1].High
                /\ frame[n].Low = frame[1].Low /\ frame[n].Close = frame[1].Close
             THEN n ELSE k

InitFrame ==
    /\ data_points = <<>>
    /\ arg_period = 1
    /\ call = "none"
    /\ raised = "none"
    /\ ret = None
    /\ df = <<>>
    /\ indicators = None
    /\ arg_base_date = None
    /\ LoaderUnused
    /\ PipelineUnused
    /\ arg_asset_id = None
    /\ daily_prices = EmptyBag
    /\ technical_indicators = EmptyBag

\* the source delivers one more row
AppendBar ==
    \E b \in Bars :
        LET row == [Date |-> DateAt(Len(df) + 1), High |-> b.High, Low |-> b.Low,
                    Close |-> b.Close]
            frame == Append(df, row)
        IN  /\ FlatPrefixLen(frame) <= MaxFlat
            /\ Len(frame) - FlatPrefixLen(frame) <= MaxTail
            /\ df' = frame
            /\ call' = "none"
            /\ indicators' = None
            /\ UNCHANGED <<data_points, arg_period, raised, ret, db, arg_base_date, api, etl>>

\* indicators = self.indicator_calc.calculate_all_indicators(raw_data)
CalculateAllIndicators ==
    \E zero_loss_neg \in BOOLEAN :
    /\ call' = "calculate_all_indicators"
    /\ indicators' = calculate_all_indicators(df, zero_loss_neg)
    /\ UNCHANGED <<data_points, arg_period, raised, ret, df, db, arg_base_date, api, etl>>

NextFrame ==
    \/ AppendBar
    \/ CalculateAllIndicators

SpecFrame == InitFrame /\ [][NextFrame]_vars

----------------------------------------------------------------------------
(* The callers of the operations that return the points with a field added, *)
(* called in any order on one list                                          *)

\* the base_date arguments: the default, the date of the second point and a
\* date no point has
BaseDates == {None, BaseDate(DateAt(2)), BaseDate(DateAt(1) + 1)}

\* processor.calculate_returns(data_points)
CalculateReturns ==
    /\ call' = "calculate_returns"
    /\ raised' = calculate_returns_raises(data_points)
    /\ ret' = IF raised' = "none" THEN calculate_returns(data_points) ELSE None
    /\ data_points' = points_after_calculate_returns(data_points)
    /\ UNCHANGED <<arg_period, df, indicators, db, arg_base_date, api, etl>>

\* processor.normalize_prices(data_points, base_date)
NormalizePrices ==
    \E base_date \in BaseDates :
        /\ call' = "normalize_prices"
        /\ arg_base_date' = base_date
        /\ raised' = normalize_prices_raises(data_points, base_date)
        /\ ret' = IF raised' = "none" THEN normalize_prices(data_points, base_date)
                  ELSE None
        /\ data_points' = points_after_normalize_prices(data_points, base_date)
        /\ UNCHANGED <<arg_period, df, indicators, db, api, etl>>

NextPure ==
    \/ CalculateStatistics
    \/ CalculateMovingAverage
    \/ CalculateReturns
    \/ NormalizePrices

SpecPure == Init /\ [][NextPure]_vars

----------------------------------------------------------------------------
(* The callers of the smoothing indicators of the ETL side *)

\* TechnicalIndicatorCalculator.calculate_ema(closes, period)
CalculateEma ==
    /\ call' = "calculate_ema"
    /\ raised' = "none"
    /\ ret' = calculate_ema(ClosesOf(data_points), arg_period)
    /\ UNCHANGED <<data_points, arg_period, df, indicators, db, arg_base_date, api, etl>>

\* TechnicalIndicatorCalculator.calculate_macd(closes)
CalculateMacd ==
    /\ Len(data_points) <= MaxMacdLen
    /\ call' = "calculate_macd"
    /\ raised' = "none"
    /\ ret' = calculate_macd(ClosesOf(data_points))
    /\ UNCHANGED <<data_points, arg_period, df, indicators, db, arg_base_date, api, etl>>

\* TechnicalIndicatorCalculator.calculate_bollinger_bands(closes, period)
CalculateBollingerBands ==
    /\ call' = "calculate_bollinger_bands"
    /\ raised' = "none"
    /\ ret' = calculate_bollinger_bands(ClosesOf(data_points), arg_period,
                                        Rat(DefaultStdDev, 1))
    /\ UNCHANGED <<data_points, arg_period, df, indicators, db, arg_base_date, api, etl>>

NextSmooth ==
    \/ CalculateEma
    \/ CalculateMacd
    \/ CalculateBollingerBands

SpecSmooth == Init /\ [][NextSmooth]_vars

----------------------------------------------------------------------------
(* The caller of calculate_atr: a price frame of up to MaxLen bars *)

Frames ==
    UNION {{[i \in 1 .. n |-> [Date |-> DateAt(i), High |-> b[i].High,
                               Low |-> b[i].Low, Close |-> b[i].Close]] :
                b \in [1 .. n -> AtrBars]} : n \in 0 .. MaxLen}

InitBars ==
    /\ data_points = <<>>
    /\ arg_period \in 1 .. MaxPeriod
    /\ call = "none"
    /\ raised = "none"
    /\ ret = None
    /\ df \in Frames
    /\ indicators = None
    /\ arg_base_date = None
    /\ LoaderUnused
    /\ PipelineUnused
    /\ arg_asset_id = None
    /\ daily_prices = EmptyBag
    /\ technical_indicators = EmptyBag

\* TechnicalIndicatorCalculator.calculate_atr(high, low, close, period)
CalculateAtr ==
    /\ call' = "calculate_atr"
    /\ raised' = "none"
    /\ ret' = calculate_atr(Column(df, "High"), Column(df, "Low"),
                            Column(df, "Close"), arg_period)
    /\ UNCHANGED <<data_points, arg_period, df, indicators, db, arg_base_date, api, etl>>

NextBars == CalculateAtr

SpecBars == InitBars /\ [][NextBars]_vars

----------------------------------------------------------------------------
(* The ETL run of one symbol after another: the frame is fetched, its rows   *)
(* are persisted, the indicator set is computed and persisted                *)

StoreRow(i, bar) ==
    [Date |-> Midnight(DateAt(i)), Open |-> bar.Open, High |-> bar.High,
     Low |-> bar.Low, Close |-> bar.Close, Volume |-> bar.Volume,
     AdjClose |-> bar.AdjClose]

\* what the source delivers: nothing, the first day, the first two days, and
\* the first two days with the first day's row revised
StoreFrames ==
    {<<>>,
     <<StoreRow(1, StoreBarA)>>,
     <<StoreRow(1, StoreBarA), StoreRow(2, StoreBarB)>>,
     <<StoreRow(1, StoreBarB), StoreRow(2, StoreBarB)>>}

\* raw_data = self.extractor.fetch_historical_data(symbol, start_date, end_date)
FetchHistoricalData ==
    \E data \in StoreFrames :
        /\ call' = "fetch_historical_data"
        /\ df' = data
        /\ indicators' = None
        /\ UNCHANGED <<data_points, arg_period, raised, ret, db, arg_base_date, api, etl>>

\* self.db.insert_daily_prices(raw_data, asset_id)
InsertDailyPrices ==
    \E asset_id \in AssetIds :
        /\ call' = "insert_daily_prices"
        /\ arg_asset_id' = asset_id
        /\ daily_prices' = insert_daily_prices(daily_prices, df, asset_id)
        /\ UNCHANGED <<data_points, arg_period, raised, ret, df, indicators,
                       technical_indicators, arg_base_date, api, etl>>

\* self.db.insert_technical_indicators(asset_id, indicators)
InsertTechnicalIndicators ==
    \E asset_id \in AssetIds :
        /\ indicators # None
        /\ call' = "insert_technical_indicators"
        /\ arg_asset_id' = asset_id
        /\ technical_indicators' =
               insert_technical_indicators(technical_indicators, asset_id, indicators)
        /\ UNCHANGED <<data_points, arg_period, raised, ret, df, indicators,
                       daily_prices, arg_base_date, api, etl>>

NextStore ==
    \/ FetchHistoricalData
    \/ CalculateAllIndicators
    \/ InsertDailyPrices
    \/ InsertTechnicalIndicators

SpecStore == InitFrame /\ [][NextStore]_vars

----------------------------------------------------------------------------
(* The API process: one DataLoader serves the requests, while the files of  *)
(* the data directory may be replaced between two requests.                 *)

\* what AAPL.json may be
DataFiles == {Missing, NotJson, Denied} \cup {Json(d) : d \in DataDocuments}

\* the module-level DataLoader() of routes.py over a data directory
InitApi ==
    /\ data_points = <<>>
    /\ arg_period = 1
    /\ call = "none"
    /\ raised = "none"
    /\ ret = None
    /\ df = <<>>
    /\ indicators = None
    /\ arg_base_date = None
    /\ arg_asset_id = None
    /\ daily_prices = EmptyBag
    /\ technical_indicators = EmptyBag
    /\ PipelineUnused
    /\ _metadata = None
    /\ _cache = <<>>
    /\ request = None
    /\ response = None
    /\ \E metadata_file \in {Missing, Json(MetadataJson)}, data_file \in DataFiles :
           files = [path \in {"metadata.json", "AAPL.json", "XAU.json"} |->
                       IF path = "metadata.json" THEN metadata_file
                       ELSE IF path = "AAPL.json" THEN data_file
                       ELSE Json(CHOOSE d \in DataDocuments : Len(d.data) = 3)]

\* data_loader.load_symbol_data(symbol)
LoadSymbolData ==
    \E symbol \in RequestSymbols :
        \E outcome \in {load_symbol_data(symbol, _metadata, _cache, files)} :
            /\ call' = "load_symbol_data"
            /\ request' = [symbol |-> symbol, start_date |-> None, end_date |-> None]
            /\ raised' = outcome.raised
            /\ ret' = outcome.ret
            /\ _metadata' = outcome._metadata
            /\ _cache' = outcome._cache
            /\ response' = None
            /\ UNCHANGED <<data_points, arg_period, df, indicators, db,
                           arg_base_date, files, etl>>

\* data_loader.get_commodity_data(commodity, start_date, end_date)
GetCommodityData ==
    \E symbol \in RequestSymbols, start_date, end_date \in DateFilters :
        \E outcome \in {get_commodity_data(symbol, start_date, end_date, _metadata,
                                          _cache, files)} :
            /\ call' = "get_commodity_data"
            /\ request' = [symbol |-> symbol, start_date |-> start_date,
                            end_date |-> end_date]
            /\ raised' = outcome.raised
            /\ ret' = outcome.ret
            /\ _metadata' = outcome._metadata
            /\ _cache' = outcome._cache
            /\ response' = None
            /\ UNCHANGED <<data_points, arg_period, df, indicators, db,
                           arg_base_date, files, etl>>

\* data_loader.get_commodity_info(commodity)
GetCommodityInfo ==
    \E symbol \in RequestSymbols :
        \E outcome \in {get_commodity_info(symbol, _metadata, _cache, files)} :
            /\ call' = "get_commodity_info"
            /\ request' = [symbol |-> symbol, start_date |-> None, end_date |-> None]
            /\ raised' = outcome.raised
            /\ ret' = outcome.ret
            /\ _metadata' = outcome._metadata
            /\ _cache' = outcome._cache
            /\ response' = None
            /\ UNCHANGED <<data_points, arg_period, df, indicators, db,
                           arg_base_date, files, etl>>

\* GET /api/stats/{symbol}
GetCommodityStatistics ==
    \E symbol \in RequestSymbols, start_date, end_date \in DateFilters :
        \E outcome \in {statistics_body(symbol, start_date, end_date, _metadata,
                                       _cache, files)} :
            /\ call' = "get_commodity_statistics"
            /\ request' = [symbol |-> symbol, start_date |-> start_date,
                            end_date |-> end_date]
            /\ response' = handler_response(outcome.raised)
            /\ raised' = IF response'.status_code = 200 THEN "none"
                          ELSE "HTTPException"
            /\ ret' = IF response'.status_code = 200
                      THEN calculate_statistics(outcome.ret, symbol)
                      ELSE None
            /\ _metadata' = outcome._metadata
            /\ _cache' = outcome._cache
            /\ UNCHANGED <<data_points, arg_period, df, indicators, db,
                           arg_base_date, files, etl>>

\* GET /api/commodities/compare
CompareCommodities ==
    \E symbols \in CompareQueries, start_date \in DateFilters,
       end_date \in {None} :
        \E outcome \in {compare_body(symbols, start_date, end_date, _metadata,
                                    _cache, files)} :
            /\ call' = "compare_commodities"
            /\ request' = [symbols |-> symbols, start_date |-> start_date,
                            end_date |-> end_date]
            /\ response' = handler_response(outcome.raised)
            /\ raised' = IF response'.status_code = 200 THEN "none"
                          ELSE "HTTPException"
            /\ ret' = IF response'.status_code = 200 THEN outcome.ret ELSE None
            /\ _metadata' = outcome._metadata
            /\ _cache' = outcome._cache
            /\ UNCHANGED <<data_points, arg_period, df, indicators, db,
                           arg_base_date, files, etl>>

\* the environment replaces, removes or damages AAPL.json
ReplaceDataFile ==
    \E data_file \in DataFiles :
        /\ files' = [files EXCEPT !["AAPL.json"] = data_file]
        /\ files' # files
        /\ UNCHANGED <<data_points, arg_period, call, raised, ret, df, indicators,
                       db, arg_base_date, _metadata, _cache, request, response, etl>>

NextApi ==
    \/ LoadSymbolData
    \/ GetCommodityData
    \/ GetCommodityInfo
    \/ GetCommodityStatistics
    \/ CompareCommodities
    \/ ReplaceDataFile

SpecApi == InitApi /\ [][NextApi]_vars

----------------------------------------------------------------------------
(* FinancialETLPipeline.run_full_pipeline (src/Database/etl_pipeline.py).    *)
(* pc is the statement the run is at; position counts the symbols the loops  *)
(* have reached; conn is self.db.conn: "none" before connect(), then "open", *)
(* "aborted" once a statement of the open transaction has failed (the server *)
(* refuses every further statement until a rollback, and the code rolls     *)
(* nothing back), and "closed".                                              *)

\* symbols_by_category.items(), in the order of the dict
SymbolsByCategory ==
    <<[category |-> "Metals", symbols |-> <<"GC=F", "SI=F">>],
      [category |-> "Currency", symbols |-> <<"EURUSD=X">>]>>

\* for category, symbols in symbols_by_category.items(): for symbol in symbols
RECURSIVE symbols_in_order(_)
symbols_in_order(items) ==
    IF items = <<>> THEN <<>>
    ELSE items[1].symbols \o symbols_in_order(Tail(items))

\* what fetch_historical_data returns: an empty frame (nothing retrieved, or
\* the download raised), one day, two days
FetchedFrames ==
    {<<>>,
     <<StoreRow(1, StoreBarA)>>,
     <<StoreRow(1, StoreBarA), StoreRow(2, StoreBarB)>>}

\* if raw_data.empty: log the failure and return, else go on to the asset
AfterFetchUnchecked(raw_data) == "ensure_asset"
after_fetch(raw_data) == IF raw_data = <<>> THEN "log_no_data" ELSE "ensure_asset"

\* cursor.execute(...) on self.conn: it succeeds or the server reports an error
\* and aborts the transaction; in an aborted transaction it always fails
execute(connection) ==
    IF connection = "open" THEN {"ok", "DatabaseError"}
    ELSE {"InFailedSqlTransaction"}

\* asset_exists(symbol): SELECT asset_id FROM markets.assets WHERE symbol = ...
asset_exists(rows, symbol) == \E r \in rows : r.symbol = symbol

\* the asset_id of the row of a symbol
asset_id_of(rows, symbol) == (CHOOSE r \in rows : r.symbol = symbol).asset_id

\* insert_asset: INSERT ... ON CONFLICT (symbol) DO NOTHING; the new row takes
\* the next asset_id
insert_asset(rows, symbol) ==
    IF asset_exists(rows, symbol) THEN rows
    ELSE rows \cup {[symbol |-> symbol, asset_id |-> Cardinality(rows) + 1]}

\* log_etl_job: INSERT INTO markets.etl_logs (...) VALUES (...)
log_etl_job(logs, asset_id, job_name, job_type, status, rows_processed) ==
    Append(logs, [asset_id |-> asset_id, job_name |-> job_name,
                  job_type |-> job_type, status |-> status,
                  rows_processed |-> rows_processed])

\* the symbol _process_symbol was called for
current_symbol == symbols_in_order(SymbolsByCategory)[position]

\* pipeline = FinancialETLPipeline(DB_CONFIG), over a database that holds no
\* asset yet or the asset of one of the symbols
InitPipeline ==
    /\ data_points = <<>>
    /\ arg_period = 1
    /\ call = "none"
    /\ raised = "none"
    /\ ret = None
    /\ df = <<>>
    /\ indicators = None
    /\ arg_base_date = None
    /\ arg_asset_id = None
    /\ daily_prices = EmptyBag
    /\ technical_indicators = EmptyBag
    /\ LoaderUnused
    /\ pc = "connect"
    /\ position = 0
    /\ conn = "none"
    /\ etl_logs = <<>>
    /\ assets \in {{}, {[symbol |-> "SI=F", asset_id |-> 1]}}
    /\ processing = <<>>

\* self.db.connect(), before the try statement of run_full_pipeline
Connect ==
    /\ pc = "connect"
    /\ call' = "connect"
    /\ \E outcome \in {"ok", "OperationalError"} :
        IF outcome = "ok"
        THEN conn' = "open" /\ pc' = "loop" /\ raised' = "none"
        ELSE conn' = conn /\ pc' = "raised" /\ raised' = outcome
    /\ UNCHANGED <<data_points, arg_period, ret, df, indicators, db, arg_base_date,
                   api, position, etl_logs, assets, processing>>

\* the loops call _process_symbol for the next symbol, which fetches its data
ProcessSymbol ==
    /\ pc = "loop"
    /\ position < Len(symbols_in_order(SymbolsByCategory))
    /\ call' = "fetch_historical_data"
    /\ position' = position + 1
    /\ processing' = Append(processing, symbols_in_order(SymbolsByCategory)[position'])
    /\ \E raw_data \in FetchedFrames :
        /\ df' = raw_data
        /\ pc' = after_fetch(raw_data)
    /\ indicators' = None
    /\ arg_asset_id' = None
    /\ UNCHANGED <<data_points, arg_period, raised, ret, daily_prices,
                   technical_indicators, arg_base_date, api, conn, etl_logs, assets>>

\* self.db.log_etl_job(None, symbol, 'daily_update', 'failed', 0, ...); return
LogNoData ==
    /\ pc = "log_no_data"
    /\ call' = "log_etl_job"
    /\ \E outcome \in execute(conn) :
        IF outcome = "ok"
        THEN /\ etl_logs' = log_etl_job(etl_logs, None, current_symbol,
                                        "daily_update", "failed", 0)
             /\ pc' = "loop"
             /\ UNCHANGED <<raised, conn>>
        ELSE /\ raised' = outcome
             /\ conn' = "aborted"
             /\ pc' = "except"
             /\ UNCHANGED etl_logs
    /\ UNCHANGED <<data_points, arg_period, ret, df, indicators, db, arg_base_date,
                   api, position, assets, processing>>

\* if not self.db.asset_exists(symbol): asset_id = self.db.insert_asset(...)
\* else: asset_id = the row's; both lookups go through self.db.engine
EnsureAsset ==
    /\ pc = "ensure_asset"
    /\ call' = "insert_asset"
    /\ \E lookup \in {"ok", "OperationalError"} :
        IF lookup # "ok"
        THEN /\ raised' = lookup
             /\ pc' = "except"
             /\ UNCHANGED <<arg_asset_id, assets, conn>>
        ELSE IF asset_exists(assets, current_symbol)
        THEN /\ arg_asset_id' = asset_id_of(assets, current_symbol)
             /\ pc' = "insert_daily_prices"
             /\ UNCHANGED <<raised, assets, conn>>
        ELSE \E outcome \in execute(conn) :
             IF outcome = "ok"
             THEN /\ assets' = insert_asset(assets, current_symbol)
                  /\ arg_asset_id' = asset_id_of(assets', current_symbol)
                  /\ pc' = "insert_daily_prices"
                  /\ UNCHANGED <<raised, conn>>
             ELSE /\ raised' = outcome
                  /\ conn' = "aborted"
                  /\ pc' = "except"
                  /\ UNCHANGED <<arg_asset_id, assets>>
    /\ UNCHANGED <<data_points, arg_period, ret, df, indicators, daily_prices,
                   technical_indicators, arg_base_date, api, position, etl_logs,
                   processing>>

\* self.db.insert_daily_prices(raw_data, asset_id)
PersistPrices ==
    /\ pc = "insert_daily_prices"
    /\ call' = "insert_daily_prices"
    /\ \E outcome \in execute(conn) :
        IF outcome = "ok"
        THEN /\ daily_prices' = insert_daily_prices(daily_prices, df, arg_asset_id)
             /\ pc' = "calculate_all_indicators"
             /\ UNCHANGED <<raised, conn>>
        ELSE /\ raised' = outcome
             /\ conn' = "aborted"
             /\ pc' = "except"
             /\ UNCHANGED daily_prices
    /\ UNCHANGED <<data_points, arg_period, ret, df, indicators, arg_asset_id,
                   technical_indicators, arg_base_date, api, position, etl_logs,
                   assets, processing>>

\* indicators = self.indicator_calc.calculate_all_indicators(raw_data)
ComputeIndicators ==
    /\ pc = "calculate_all_indicators"
    /\ call' = "calculate_all_indicators"
    /\ \E zero_loss_neg \in BOOLEAN :
        indicators' = calculate_all_indicators(df, zero_loss_neg)
    /\ pc' = "insert_technical_indicators"
    /\ UNCHANGED <<data_points, arg_period, raised, ret, df, db, arg_base_date, api,
                   position, conn, etl_logs, assets, processing>>

\* self.db.insert_technical_indicators(asset_id, indicators)
PersistIndicators ==
    /\ pc = "insert_technical_indicators"
    /\ call' = "insert_technical_indicators"
    /\ \E outcome \in execute(conn) :
        IF outcome = "ok"
        THEN /\ technical_indicators' =
                    insert_technical_indicators(technical_indicators, arg_asset_id,
                                                indicators)
             /\ pc' = "log_success"
             /\ UNCHANGED <<raised, conn>>
        ELSE /\ raised' = outcome
             /\ conn' = "aborted"
             /\ pc' = "except"
             /\ UNCHANGED technical_indicators
    /\ UNCHANGED <<data_points, arg_period, ret, df, indicators, arg_asset_id,
                   daily_prices, arg_base_date, api, position, etl_logs, assets,
                   processing>>

\* self.db.log_etl_job(asset_id, symbol, 'daily_update', 'success', len(raw_data), ...)
LogSuccess ==
    /\ pc = "log_success"
    /\ call' = "log_etl_job"
    /\ \E outcome \in execute(conn) :
        IF outcome = "ok"
        THEN /\ etl_logs' = log_etl_job(etl_logs, DbIntValue(arg_asset_id),
                                        current_symbol, "daily_update", "success",
                                        Len(df))
             /\ pc' = "loop"
             /\ UNCHANGED <<raised, conn>>
        ELSE /\ raised' = outcome
             /\ conn' = "aborted"
             /\ pc' = "except"
             /\ UNCHANGED etl_logs
    /\ UNCHANGED <<data_points, arg_period, ret, df, indicators, db, arg_base_date,
                   api, position, assets, processing>>

\* except Exception as e: self.db.log_etl_job(None, symbol, 'daily_update',
\* 'failed', 0, error_message=str(e), ...); what this call raises leaves
\* _process_symbol and the loops
LogFailure ==
    /\ pc = "except"
    /\ call' = "log_etl_job"
    /\ \E outcome \in execute(conn) :
        IF outcome = "ok"
        THEN /\ etl_logs' = log_etl_job(etl_logs, None, current_symbol,
                                        "daily_update", "failed", 0)
             /\ raised' = "none"
             /\ pc' = "loop"
             /\ UNCHANGED conn
        ELSE /\ raised' = outcome
             /\ conn' = "aborted"
             /\ pc' = "finally"
             /\ UNCHANGED etl_logs
    /\ UNCHANGED <<data_points, arg_period, ret, df, indicators, db, arg_base_date,
                   api, position, assets, processing>>

\* finally: self.db.disconnect(), after the loops or on the way out of them;
\* then run_full_pipeline returns, or raises what left the loops
Disconnect ==
    /\ \/ pc = "loop" /\ position = Len(symbols_in_order(SymbolsByCategory))
       \/ pc = "finally"
    /\ call' = "disconnect"
    /\ conn' = "closed"
    /\ pc' = IF raised = "none" THEN "returned" ELSE "raised"
    /\ UNCHANGED <<data_points, arg_period, raised, ret, df, indicators, db,
                   arg_base_date, api, position, etl_logs, assets, processing>>

NextPipeline ==
    \/ Connect
    \/ ProcessSymbol
    \/ LogNoData
    \/ EnsureAsset
    \/ PersistPrices
    \/ ComputeIndicators
    \/ PersistIndicators
    \/ LogSuccess
    \/ LogFailure
    \/ Disconnect

SpecPipeline == InitPipeline /\ [][NextPipeline]_vars

----------------------------------------------------------------------------
(* Properties.  They restate what an operation must return in terms of the  *)
(* caller's integer prices, without the model's rational arithmetic.        *)

IntCloses(points) == [i \in 1 .. Len(points) |-> points[i].close]

RECURSIVE IntSum(_, _, _)
\* xs[lo] + ... + xs[hi]
IntSum(xs, lo, hi) == IF lo > hi THEN 0 ELSE xs[lo] + IntSum(xs, lo + 1, hi)

IntSumSq(xs) == IntSum([i \in 1 .. Len(xs) |-> xs[i] * xs[i]], 1, Len(xs))

\* q is the rational num / den
IsQuotient(q, num, den) == IsRat(q) /\ q.d > 0 /\ q.n * den = q.d * num

\* C1: for every period p >= 1 the simple moving average has the length of
\* the input, is null at the indices 0 .. p-2 and is the arithmetic mean of
\* the closes at i-p+1 .. i at every index i >= p-1; both for calculate_sma
\* and for the 'ma' field of calculate_moving_average(window = p).
C1_SmaIsRollingMean ==
    LET xs == IntCloses(data_points)
        n == Len(data_points)
        p == arg_period
    IN  /\ call = "calculate_sma" =>
            /\ Len(ret) = n
            /\ \A i \in 1 .. n :
                IF i - 1 <= p - 2 THEN ret[i] = NaN
                ELSE IsQuotient(ret[i], IntSum(xs, i - p + 1, i), p)
        /\ call = "calculate_moving_average" =>
            /\ Len(ret) = n
            /\ \A i \in 1 .. n :
                /\ ret[i].date = data_points[i].date
                /\ ret[i].close = data_points[i].close
                /\ IF i - 1 <= p - 2 THEN ret[i].ma = None
                   ELSE IsQuotient(ret[i].ma, IntSum(xs, i - p + 1, i), p)

C1_Witness ==
    /\ call = "calculate_moving_average"
    /\ IntCloses(data_points) = <<100, 110, 90>>
    /\ arg_period = 2
    /\ ret[1].ma = None
    /\ ret[2].ma = Rat(105, 1)
    /\ ret[3].ma = Rat(100, 1)

\* n * sum(x^2) - sum(x)^2, which is n^2 times the population variance and
\* n * (n - 1) times the sample variance
ScaledSpread(xs) ==
    Len(xs) * IntSumSq(xs) - IntSum(xs, 1, Len(xs)) * IntSum(xs, 1, Len(xs))

\* s is the non-negative square root of num / den
IsRootOf(s, num, den) ==
    /\ s.a = Zero
    /\ RLe(Zero, s.c)
    /\ IsQuotient(SurdSquare(s), num, den)

\* C2 as stated: std_dev is the population standard deviation (divisor n)
\* of all close prices, for every non-empty input.
C2_StdDevIsPopulation ==
    (call = "calculate_statistics" /\ raised = "none") =>
        LET xs == IntCloses(data_points)
        IN  IsRootOf(ret.std_dev, ScaledSpread(xs), Len(xs) * Len(xs))

\* C2 amended: whenever calculate_statistics returns a summary, std_dev is
\* the sample standard deviation (divisor n - 1) of all close prices when
\* there are n >= 2 points, and 0 when there is one point.
C2_StdDevIsSample ==
    (call = "calculate_statistics" /\ raised = "none") =>
        LET xs == IntCloses(data_points)
            n == Len(xs)
        IN  IF n = 1 THEN SurdIsZero(ret.std_dev)
            ELSE IsRootOf(ret.std_dev, ScaledSpread(xs), n * (n - 1))

C2_Witness ==
    /\ call = "calculate_statistics"
    /\ raised = "none"
    /\ IntCloses(data_points) = <<100, 110, 90>>
    /\ SurdSquare(ret.std_dev) = Rat(100, 1)
    /\ SurdSquare(ret.std_dev) # Rat(200, 3)

\* C3: calculate_statistics never ends with a division-by-zero exception for
\* a non-empty input, also when the first close is 0 and there are more
\* points than one.
C3_NoDivisionByZero ==
    (call = "calculate_statistics" /\ data_points # <<>>) =>
        raised # "ZeroDivisionError"

\* C4: RSI(period) is null at every index 0 .. period-1, where the window of
\* `period` trailing price deltas is not yet fully populated; no entry comes
\* from a window that counts the missing first delta as a zero.
C4_RsiNullBeforeWarm ==
    call = "calculate_rsi" =>
        \A i \in 1 .. Len(ret) : (i - 1 <= arg_period - 1) => ret[i] = NaN

\* C5: every non-null RSI value lies in the closed interval [0, 100] (the
\* zero-loss sentinel included), for every input series and period.
C5_RsiWithinBounds ==
    call = "calculate_rsi" =>
        \A i \in 1 .. Len(ret) :
            ret[i] # NaN =>
                /\ IsRat(ret[i])
                /\ RLe(Zero, ret[i])
                /\ RLe(ret[i], Hundred)

C5_Witness ==
    /\ call = "calculate_rsi"
    /\ \E i \in 1 .. Len(ret) :
        /\ i - 1 >= arg_period
        /\ IsRat(ret[i])
        /\ RLt(Zero, ret[i])
        /\ RLt(ret[i], Hundred)

\* C6: when the average loss over an RSI window is zero the result is a
\* defined fallback, never an infinity: the same finite sentinel (100) for
\* every such window with positive average gain, and null for a flat window
\* (zero gain and zero loss).
C6_RsiZeroLossFallback ==
    call = "calculate_rsi" =>
        LET gain == rsi_gain(ClosesOf(data_points), arg_period)
            loss == rsi_loss(ClosesOf(data_points), arg_period)
        IN  \A i \in 1 .. Len(ret) :
                /\ ret[i] # PInf /\ ret[i] # NInf
                /\ loss[i] = Zero =>
                    IF gain[i] = Zero THEN ret[i] = NaN ELSE ret[i] = Hundred

C6_Witness ==
    /\ call = "calculate_rsi"
    /\ LET gain == rsi_gain(ClosesOf(data_points), arg_period)
           loss == rsi_loss(ClosesOf(data_points), arg_period)
       IN  \E i, j \in 1 .. Len(ret) :
            /\ i - 1 >= arg_period /\ j - 1 >= arg_period
            /\ loss[i] = Zero /\ RLt(Zero, gain[i]) /\ ret[i] = Hundred
            /\ loss[j] = Zero /\ gain[j] = Zero /\ ret[j] = NaN

\* the 0-based index from which a window-based column may hold a value
WarmIndex ==
    [SMA_20 |-> 19, SMA_50 |-> 49, SMA_200 |-> 199,
     BB_Upper |-> 19, BB_Middle |-> 19, BB_Lower |-> 19,
     ATR_14 |-> 13, RSI_14 |-> 14]

AllColumns ==
    {"SMA_20", "SMA_50", "SMA_200", "EMA_12", "EMA_26", "RSI_14", "MACD",
     "MACD_Signal", "BB_Upper", "BB_Middle", "BB_Lower", "ATR_14"}

\* the indicator set has one row per input row, under the input's timestamps
IndicatorsAligned ==
    /\ indicators.index = IndexOf(df)
    /\ DOMAIN indicators = AllColumns \cup {"index"}
    /\ \A c \in AllColumns : Len(indicators[c]) = Len(df)

\* every entry of the window-based columns cs before the column's warm index
\* is null
NullBeforeWarm(cs) ==
    \A c \in cs : \A i \in 1 .. Len(indicators[c]) :
        (i - 1 < WarmIndex[c]) => indicators[c][i] = NaN

\* C7: calculate_all_indicators returns exactly n rows aligned 1:1 with the
\* input timestamps, and in every window-based column (SMA_20, SMA_50,
\* SMA_200, BB_Upper/Middle/Lower, ATR_14, RSI_14) every entry before the
\* window is warm is null; a column whose period exceeds n is null throughout.
C7_IndicatorSetAlignedAndNullBeforeWarm ==
    call = "calculate_all_indicators" =>
        /\ IndicatorsAligned
        /\ NullBeforeWarm(DOMAIN WarmIndex)

\* what holds of the code: the same with RSI_14 left out
AllIndicatorsExceptRsi ==
    call = "calculate_all_indicators" =>
        /\ IndicatorsAligned
        /\ NullBeforeWarm(DOMAIN WarmIndex \ {"RSI_14"})
        /\ \A c \in DOMAIN WarmIndex \ {"RSI_14"} :
            \A i \in 1 .. Len(indicators[c]) :
                (i - 1 >= WarmIndex[c]) => indicators[c][i] # NaN

\* C8: calculate_statistics on an empty sequence fails with ValueError and
\* returns no summary record.
C8_EmptyInputRaisesValueError ==
    (call = "calculate_statistics" /\ data_points = <<>>) =>
        (raised = "ValueError" /\ ret = None)

C8_Witness ==
    /\ call = "calculate_statistics"
    /\ data_points = <<>>
    /\ raised = "ValueError"

\* C9: for every non-empty close sequence with non-zero first close,
\* mean_close = sum / length, min_price = the smallest close, max_price = the
\* largest close and total_change_pct = (last - first) / first * 100.
C9_SummaryValues ==
    (/\ call = "calculate_statistics"
     /\ data_points # <<>>
     /\ data_points[1].close # 0) =>
        LET xs == IntCloses(data_points)
            n == Len(xs)
        IN  /\ raised = "none"
            /\ IsQuotient(ret.mean_close, IntSum(xs, 1, n), n)
            /\ \E i \in 1 .. n : IsQuotient(ret.min_price, xs[i], 1)
            /\ \A i \in 1 .. n : ret.min_price.n <= xs[i] * ret.min_price.d
            /\ \E i \in 1 .. n : IsQuotient(ret.max_price, xs[i], 1)
            /\ \A i \in 1 .. n : ret.max_price.n >= xs[i] * ret.max_price.d
            /\ IsQuotient(ret.total_change_pct,
                          (xs[n] - xs[1]) * 100 * (IF xs[1] < 0 THEN -1 ELSE 1),
                          Abs(xs[1]))

C9_Witness ==
    /\ call = "calculate_statistics"
    /\ IntCloses(data_points) = <<100, 110, 90>>
    /\ ret.mean_close = Rat(100, 1)
    /\ ret.min_price = Rat(90, 1)
    /\ ret.max_price = Rat(110, 1)
    /\ ret.total_change_pct = Rat(-10, 1)

\* C10: for a series of exactly one data point (any close, 0 included)
\* std_dev = 0, total_change_pct = 0, volatility = 0, min_price = max_price =
\* mean_close = median_close = that close and min_date = max_date = its date.
C10_SinglePoint ==
    (call = "calculate_statistics" /\ Len(data_points) = 1) =>
        LET c == data_points[1].close
        IN  /\ raised = "none"
            /\ SurdIsZero(ret.std_dev)
            /\ ret.total_change_pct = Zero
            /\ SurdIsZero(ret.volatility)
            /\ IsQuotient(ret.min_price, c, 1)
            /\ IsQuotient(ret.max_price, c, 1)
            /\ IsQuotient(ret.mean_close, c, 1)
            /\ IsQuotient(ret.median_close, c, 1)
            /\ ret.min_date = data_points[1].date
            /\ ret.max_date = data_points[1].date

C10_Witness ==
    /\ call = "calculate_statistics"
    /\ Len(data_points) = 1
    /\ data_points[1].close = 0
    /\ raised = "none"
    /\ ret.mean_close = Zero
    /\ SurdIsZero(ret.volatility)

\* the lowest position of xs holding its smallest (sign = 1) or its largest
\* (sign = -1) entry
FirstExtreme(xs, sign) ==
    CHOOSE i \in 1 .. Len(xs) :
        /\ \A j \in 1 .. Len(xs) : sign * xs[i] <= sign * xs[j]
        /\ \A j \in 1 .. (i - 1) : xs[j] # xs[i]

\* C11: min_date is the date of the earliest data point whose close equals
\* the minimum close and max_date the date of the earliest data point whose
\* close equals the maximum close, in every summary calculate_statistics
\* returns, also when the extreme value occurs several times.
C11_FirstOccurrenceWins ==
    (call = "calculate_statistics" /\ raised = "none") =>
        LET xs == IntCloses(data_points)
        IN  /\ ret.min_date = data_points[FirstExtreme(xs, 1)].date
            /\ ret.max_date = data_points[FirstExtreme(xs, -1)].date

C11_Witness ==
    /\ call = "calculate_statistics"
    /\ raised = "none"
    /\ IntCloses(data_points) = <<110, 90, 90>>
    /\ ret.min_date = DateAt(2)
    /\ ret.max_date = DateAt(1)

\* the volatility of a returned summary: (std_dev / mean_close) * 100 when
\* the mean close is not 0, and 0 when it is
VolatilityAsStated ==
    LET xs == IntCloses(data_points)
        n == Len(xs)
        total == IntSum(xs, 1, n)
    IN  IF total = 0 THEN SurdIsZero(ret.volatility)
        ELSE /\ ret.volatility.a = Zero
             /\ ret.volatility.r = ret.std_dev.r
             /\ IsQuotient(ret.volatility.c, ret.std_dev.c.n * 100 * n
                                               * (IF total < 0 THEN -1 ELSE 1),
                           ret.std_dev.c.d * Abs(total))

\* C12: calculate_statistics returns volatility = (std_dev / mean_close) * 100
\* whenever the mean close is non-zero and volatility = 0 whenever the mean
\* close is exactly 0, without raising.
C12_VolatilityWithoutRaising ==
    (call = "calculate_statistics" /\ data_points # <<>>) =>
        (raised = "none" /\ VolatilityAsStated)

\* what holds of the code: the same for the calls that return a summary
VolatilityOfReturnedSummary ==
    (call = "calculate_statistics" /\ raised = "none") => VolatilityAsStated

\* C13: calculate_ema(period) returns out with out[0] = in[0] and
\* out[t] = alpha * in[t] + (1 - alpha) * out[t-1], alpha = 2 / (period + 1):
\* as long as the input and without a null at any index.
C13_EmaRecurrence ==
    call = "calculate_ema" =>
        LET xs == IntCloses(data_points)
            p == arg_period
        IN  /\ Len(ret) = Len(xs)
            /\ \A t \in 1 .. Len(xs) : IsRat(ret[t])
            /\ xs # <<>> => IsQuotient(ret[1], xs[1], 1)
            \* (p + 1) * out[t] = 2 * in[t] + (p - 1) * out[t-1]
            /\ \A t \in 2 .. Len(xs) :
                 (p + 1) * ret[t].n * ret[t - 1].d
                    = ret[t].d * (2 * xs[t] * ret[t - 1].d + (p - 1) * ret[t - 1].n)

C13_Witness ==
    /\ call = "calculate_ema"
    /\ arg_period = 3
    /\ IntCloses(data_points) = <<100, 110, 90>>
    /\ ret = <<Rat(100, 1), Rat(105, 1), Rat(195, 2)>>

\* C14: calculate_ema with period 1 returns the input series unchanged.
C14_EmaPeriodOneIsIdentity ==
    (call = "calculate_ema" /\ arg_period = 1) =>
        LET xs == IntCloses(data_points)
        IN  /\ Len(ret) = Len(xs)
            /\ \A t \in 1 .. Len(xs) : IsQuotient(ret[t], xs[t], 1)

C14_Witness ==
    /\ call = "calculate_ema"
    /\ arg_period = 1
    /\ IntCloses(data_points) = <<100, 110, 90>>
    /\ ret = <<Rat(100, 1), Rat(110, 1), Rat(90, 1)>>

\* the sample variance (divisor p - 1) of the p integers xs[lo .. lo+p-1] is
\* the rational v
IsSampleVariance(v, xs, lo, p) ==
    LET w == SubSeq(xs, lo, lo + p - 1)
    IN  IsQuotient(v, p * IntSumSq(w) - IntSum(w, 1, p) * IntSum(w, 1, p),
                   p * (p - 1))

\* at position i the three bands are middle = mean of the trailing p closes
\* and upper / lower = middle +- k * (sample standard deviation of those
\* closes), so that upper >= middle >= lower
BandsAt(bands, xs, i, p, k) ==
    LET u == bands.upper[i]
        mid == bands.middle[i]
        l == bands.lower[i]
    IN  /\ IsQuotient(mid, IntSum(xs, i - p + 1, i), p)
        /\ u # NaN /\ l # NaN
        /\ u.a = mid /\ l.a = mid
        /\ RLe(Zero, u.c) /\ RSub(Zero, u.c) = l.c
        /\ u.r = l.r
        \* (upper - middle)^2 = k^2 * variance
        /\ IsSampleVariance(RDiv(RMul(RMul(u.c, u.c), u.r), Rat(k * k, 1)),
                            xs, i - p + 1, p)

BandsNullAt(bands, i) ==
    bands.upper[i] = NaN /\ bands.middle[i] = NaN /\ bands.lower[i] = NaN

BandsAligned(bands, xs) ==
    Len(bands.upper) = Len(xs) /\ Len(bands.middle) = Len(xs)
        /\ Len(bands.lower) = Len(xs)

\* C15: the Bollinger bands satisfy upper >= middle >= lower wherever they
\* are non-null, with middle = SMA(period) and upper - middle = middle - lower
\* = k * rolling standard deviation of the trailing `period` closes, and all
\* three bands are null at exactly the same indices (the first period - 1).
C15_BollingerBands ==
    call = "calculate_bollinger_bands" =>
        LET xs == IntCloses(data_points)
            p == arg_period
        IN  /\ BandsAligned(ret, xs)
            /\ \A i \in 1 .. Len(xs) :
                 IF i < p THEN BandsNullAt(ret, i)
                 ELSE BandsAt(ret, xs, i, p, DefaultStdDev)

\* C15 as the code has it: the same for every period >= 2, the deviation
\* being the sample standard deviation; with period 1 the middle band is the
\* input and the upper and lower bands are null at every index.
C15_BollingerBandsFromPeriodTwo ==
    call = "calculate_bollinger_bands" =>
        LET xs == IntCloses(data_points)
            p == arg_period
        IN  /\ BandsAligned(ret, xs)
            /\ \A i \in 1 .. Len(xs) :
                 IF p = 1
                 THEN /\ IsQuotient(ret.middle[i], xs[i], 1)
                      /\ ret.upper[i] = NaN /\ ret.lower[i] = NaN
                 ELSE IF i < p THEN BandsNullAt(ret, i)
                 ELSE BandsAt(ret, xs, i, p, DefaultStdDev)

C15_Witness ==
    /\ call = "calculate_bollinger_bands"
    /\ arg_period = 2
    /\ IntCloses(data_points) = <<100, 110, 90>>
    /\ BandsNullAt(ret, 1)
    /\ ret.upper[3] = Surd(Rat(100, 1), Rat(2, 1), Rat(200, 1))
    /\ ret.lower[3] = Surd(Rat(100, 1), Rat(-2, 1), Rat(200, 1))

\* the true range of row i of a frame, in the frame's integers
IntTrueRange(frame, i) ==
    LET hl == frame[i].High - frame[i].Low
        hc == Abs(frame[i].High - frame[i - 1].Close)
        lc == Abs(frame[i].Low - frame[i - 1].Close)
    IN  IF i = 1 THEN hl
        ELSE IF hl >= hc /\ hl >= lc THEN hl
        ELSE IF hc >= lc THEN hc ELSE lc

\* C16: calculate_atr uses TR[i] = max(high - low, |high - close[i-1]|,
\* |low - close[i-1]|) for i >= 1 and TR[0] = high[0] - low[0], and returns
\* ATR[i] = mean of TR[i-period+1 .. i] for every i >= period - 1, null for
\* the first period - 1 indices.
C16_AtrIsMeanTrueRange ==
    call = "calculate_atr" =>
        LET p == arg_period
            tr == [i \in 1 .. Len(df) |-> IntTrueRange(df, i)]
        IN  /\ Len(ret) = Len(df)
            /\ \A i \in 1 .. Len(df) :
                 IF i < p THEN ret[i] = NaN
                 ELSE IsQuotient(ret[i], IntSum(tr, i - p + 1, i), p)

\* bars 3/1/2, 9/7/8, 2/2/2: TR = 2, 7 (= |9 - 2|), 6 (= |2 - 8|)
C16_Witness ==
    /\ call = "calculate_atr"
    /\ arg_period = 2
    /\ Len(df) = 3
    /\ <<df[1].High, df[1].Low, df[1].Close>> = <<3, 1, 2>>
    /\ <<df[2].High, df[2].Low, df[2].Close>> = <<9, 7, 8>>
    /\ <<df[3].High, df[3].Low, df[3].Close>> = <<2, 2, 2>>
    /\ ret = <<NaN, Rat(9, 2), Rat(13, 2)>>

\* every bar of the frame has high = low = close = one constant
IsFlat(frame) ==
    \A i \in 1 .. Len(frame) :
        /\ frame[i].High = frame[1].Close
        /\ frame[i].Low = frame[1].Close
        /\ frame[i].Close = frame[1].Close

\* C17: for a flat series (high = low = close = constant) of any length and
\* any period, calculate_atr is exactly 0 at every index >= period - 1 and
\* null before.
C17_AtrOfFlatSeries ==
    (call = "calculate_atr" /\ IsFlat(df)) =>
        /\ Len(ret) = Len(df)
        /\ \A i \in 1 .. Len(df) :
             IF i < arg_period THEN ret[i] = NaN ELSE ret[i] = Zero

C17_Witness ==
    /\ call = "calculate_atr"
    /\ arg_period = 2
    /\ Len(df) = 3
    /\ IsFlat(df)
    /\ df[1].Close = 5
    /\ ret = <<NaN, Zero, Zero>>

\* out is the exponential moving average of the rationals xs with the given
\* span: out[1] = xs[1], (span + 1) * out[t] = 2 * xs[t] + (span - 1) * out[t-1]
IsEmaOf(out, xs, span) ==
    /\ Len(out) = Len(xs)
    /\ \A t \in 1 .. Len(xs) : IsRat(out[t])
    /\ xs # <<>> => out[1] = xs[1]
    /\ \A t \in 2 .. Len(xs) :
         RMul(Rat(span + 1, 1), out[t])
            = RAdd(RMul(Rat(2, 1), xs[t]), RMul(Rat(span - 1, 1), out[t - 1]))

\* C18: calculate_macd returns macd = EMA(12) - EMA(26) of the input and
\* signal = EMA(9) of macd, each EMA seeded with its input at index 0 (so
\* macd[0] = 0 and signal[0] = 0), both as long as the input and never null.
C18_MacdAndSignal ==
    call = "calculate_macd" =>
        LET xs == [i \in 1 .. Len(data_points) |->
                      Rat(IntCloses(data_points)[i], 1)]
        IN  /\ Len(ret.macd) = Len(xs) /\ Len(ret.signal) = Len(xs)
            /\ \A t \in 1 .. Len(xs) : IsRat(ret.macd[t]) /\ IsRat(ret.signal[t])
            /\ xs # <<>> => (ret.macd[1] = Zero /\ ret.signal[1] = Zero)
            /\ LET ema_12 == calculate_ema(xs, 12)
                   ema_26 == calculate_ema(xs, 26)
               IN  /\ IsEmaOf(ema_12, xs, 12)
                   /\ IsEmaOf(ema_26, xs, 26)
                   /\ \A t \in 1 .. Len(xs) :
                        ret.macd[t] = RSub(ema_12[t], ema_26[t])
            /\ IsEmaOf(ret.signal, ret.macd, 9)

\* closes [100, 110]: EMA(12) = 100 + 20/13, EMA(26) = 100 + 20/27,
\* macd[1] = 20/13 - 20/27 = 280/351, signal[1] = macd[1] / 5
C18_Witness ==
    /\ call = "calculate_macd"
    /\ IntCloses(data_points) = <<100, 110>>
    /\ ret.macd = <<Zero, Rat(280, 351)>>
    /\ ret.signal = <<Zero, Rat(56, 351)>>

\* the points of a returned list are the caller's points with one more item
PointsWith(result, points, key) ==
    /\ Len(result) = Len(points)
    /\ \A i \in 1 .. Len(points) :
         /\ DOMAIN result[i] = {"date", "close", key}
         /\ result[i].date = points[i].date
         /\ result[i].close = points[i].close

\* what the last call returned is what the operation gives for the caller's
\* list, whichever calls came before it
OutputOfInputAlone ==
    LET xs == IntCloses(data_points)
    IN  /\ (call = "calculate_returns" /\ raised = "none") =>
              /\ PointsWith(ret, data_points, "returns")
              /\ \A i \in 1 .. Len(xs) :
                   IF i = 1 THEN ret[i].returns = Zero
                   ELSE IsQuotient(ret[i].returns,
                                   (xs[i] - xs[i - 1]) * 100, xs[i - 1])
        /\ call = "calculate_moving_average" =>
              /\ PointsWith(ret, data_points, "ma")
              /\ \A i \in 1 .. Len(xs) :
                   IF i < arg_period THEN ret[i].ma = None
                   ELSE IsQuotient(ret[i].ma, IntSum(xs, i - arg_period + 1, i),
                                   arg_period)
        /\ (call = "normalize_prices" /\ raised = "none") =>
              /\ PointsWith(ret, data_points, "normalized")
              /\ \A i \in 1 .. Len(xs) :
                   \E b \in 1 .. Len(xs) :
                       /\ IF arg_base_date = None THEN b = 1
                          ELSE data_points[b].date = arg_base_date.date
                       /\ IsQuotient(ret[i].normalized, xs[i] * 100, xs[b])

\* C19: the operations are pure: a call leaves the caller's list and every
\* data point in it unchanged (calculate_returns, calculate_moving_average
\* and normalize_prices add their field to copies of the points), no state is
\* kept between calls, and what a call returns depends on its input alone,
\* whichever calls were made before it and in whichever order.
C19_OperationsArePure ==
    /\ []OutputOfInputAlone
    /\ [][data_points' = data_points /\ arg_period' = arg_period]_vars

C19_Witness ==
    /\ call = "normalize_prices"
    /\ arg_base_date = BaseDate(DateAt(2))
    /\ IntCloses(data_points) = <<100, 110, 90>>
    /\ \A i \in 1 .. 3 : DOMAIN data_points[i] = {"date", "close"}
    /\ ret[3] = [date |-> DateAt(3), close |-> 90, normalized |-> Rat(900, 11)]

\* a table holds every row once and no two rows of one key
OneRowPerKey(table) ==
    /\ \A r \in DOMAIN table : table[r] = 1
    /\ \A r1, r2 \in DOMAIN table : ConflictKey(r1) = ConflictKey(r2) => r1 = r2

\* the row of table daily_prices for (asset_id, day of frame row i) holds the
\* values of that frame row, missing values as NULL
HoldsPriceRow(table, asset_id, row) ==
    \E r \in DOMAIN table :
        /\ r.asset_id = asset_id
        /\ HoursPerDay * r.price_date = row.Date
        /\ r.open_price = Rat(row.Open, 1) /\ r.close_price = Rat(row.Close, 1)
        /\ r.high_price = Rat(row.High, 1) /\ r.low_price = Rat(row.Low, 1)
        /\ IF row.Volume = NaN THEN r.volume = None
           ELSE r.volume.k = "int" /\ r.volume.v * row.Volume.d = row.Volume.n
        /\ IF row.AdjClose = NaN THEN r.adjusted_close = None
           ELSE r.adjusted_close = row.AdjClose

NullOr(stored, x) == IF x = NaN THEN stored = None ELSE stored = x

\* the same for table technical_indicators and row i of the indicator frame
HoldsIndicatorRow(table, asset_id, frame, i) ==
    \E r \in DOMAIN table :
        /\ r.asset_id = asset_id
        /\ HoursPerDay * r.price_date = frame.index[i]
        /\ NullOr(r.sma_20, frame.SMA_20[i]) /\ NullOr(r.sma_50, frame.SMA_50[i])
        /\ NullOr(r.sma_200, frame.SMA_200[i])
        /\ NullOr(r.ema_12, frame.EMA_12[i]) /\ NullOr(r.ema_26, frame.EMA_26[i])
        /\ NullOr(r.rsi_14, frame.RSI_14[i])
        /\ NullOr(r.macd, frame.MACD[i])
        /\ NullOr(r.macd_signal, frame.MACD_Signal[i])
        /\ NullOr(r.bollinger_upper, frame.BB_Upper[i])
        /\ NullOr(r.bollinger_middle, frame.BB_Middle[i])
        /\ NullOr(r.bollinger_lower, frame.BB_Lower[i])
        /\ NullOr(r.atr_14, frame.ATR_14[i])

\* after an insert the table holds one row per key, and for every row that
\* was applied the values of this application
StoreHoldsLastApplication ==
    /\ OneRowPerKey(daily_prices)
    /\ OneRowPerKey(technical_indicators)
    /\ call = "insert_daily_prices" =>
          \A i \in 1 .. Len(df) : HoldsPriceRow(daily_prices, arg_asset_id, df[i])
    /\ call = "insert_technical_indicators" =>
          \A i \in 1 .. Len(indicators.index) :
              HoldsIndicatorRow(technical_indicators, arg_asset_id, indicators, i)

\* the rows of a table whose key is not among the given keys
RowsBeside(table, keys) == {r \in DOMAIN table : ConflictKey(r) \notin keys}

\* an insert touches the rows of the keys it applies and nothing else: the
\* other rows of its table and the other table stay, and no row is added for
\* a key that has one; no other step changes a table
StoreStepKeepsOtherRows ==
    LET priceKeys == {<<arg_asset_id', df'[i].Date \div HoursPerDay>> :
                          i \in 1 .. Len(df')}
        indicatorKeys ==
            IF indicators' = None THEN {}
            ELSE {<<arg_asset_id', indicators'.index[i] \div HoursPerDay>> :
                      i \in 1 .. Len(indicators'.index)}
        keysOf(table) == {ConflictKey(r) : r \in DOMAIN table}
    IN  /\ call' = "insert_daily_prices" =>
              /\ technical_indicators' = technical_indicators
              /\ RowsBeside(daily_prices', priceKeys)
                    = RowsBeside(daily_prices, priceKeys)
              /\ keysOf(daily_prices') = keysOf(daily_prices) \cup priceKeys
        /\ call' = "insert_technical_indicators" =>
              /\ daily_prices' = daily_prices
              /\ RowsBeside(technical_indicators', indicatorKeys)
                    = RowsBeside(technical_indicators, indicatorKeys)
              /\ keysOf(technical_indicators')
                    = keysOf(technical_indicators) \cup indicatorKeys
        /\ call' \notin {"insert_daily_prices", "insert_technical_indicators"} =>
              /\ daily_prices' = daily_prices
              /\ technical_indicators' = technical_indicators

\* C20: persisting is an idempotent upsert keyed by (asset_id, price_date):
\* after insert_daily_prices or insert_technical_indicators has been applied
\* any number of times, the table holds exactly one row per key, with the
\* values of the last application for the rows it applied (so the same rows
\* applied again leave the state of a single application, and changed values
\* overwrite), and no row is added for a key that has one.
C20_IdempotentUpsert ==
    /\ []StoreHoldsLastApplication
    /\ [][StoreStepKeepsOtherRows]_vars

\* the first day's row was applied for asset 1 when the table already held
\* the rows of both days for it, and asset 2 holds the revised first day
C20_Witness ==
    /\ call = "insert_daily_prices"
    /\ arg_asset_id = 1
    /\ df = <<StoreRow(1, StoreBarA)>>
    /\ BagCardinality(daily_prices) = 4
    /\ \E r \in DOMAIN daily_prices :
          ConflictKey(r) = <<1, DateAt(1)>> /\ r.close_price = Rat(2, 1)
    /\ \E r \in DOMAIN daily_prices :
          ConflictKey(r) = <<2, DateAt(1)>> /\ r.close_price = Rat(3, 1)
    /\ BagCardinality(technical_indicators) = 2

\* the points of a list that a date filter keeps, by their positions
Kept(points, start_date, end_date) ==
    {i \in 1 .. Len(points) :
        /\ start_date # None => start_date.date <= points[i].date
        /\ end_date # None => points[i].date <= end_date.date}

\* C21: an HTTP error raised inside a route handler reaches the client with
\* the status code it was raised with: /api/stats/{symbol} answers 404 when
\* the symbol exists but the date filter leaves no data points, and
\* /api/commodities/compare answers 400 when fewer than 2 symbols are given
C21_RaisedStatusReachesClient ==
    /\ ( /\ call = "get_commodity_statistics"
         /\ request.symbol \in DOMAIN _cache
         /\ Kept(_cache[request.symbol].data, request.start_date,
                 request.end_date) = {} )
       => response.status_code = 404
    /\ ( /\ call = "compare_commodities"
         /\ Len(symbol_list(request.symbols)) < 2 )
       => response.status_code = 400

\* the calls a caller makes on the loader for one symbol
LoaderCalls == {"load_symbol_data", "get_commodity_data", "get_commodity_info"}

\* the file metadata.json lists for a symbol, None for an unlisted symbol
ListedFile(symbol) ==
    IF symbol_info(MetadataJson.symbols, symbol) = None THEN None
    ELSE files[symbol_info(MetadataJson.symbols, symbol).path]

\* the cache holds entries only for symbols the loaded metadata lists
CacheHoldsListedSymbols ==
    \A s \in DOMAIN _cache :
        /\ _metadata # None
        /\ \E i \in 1 .. Len(_metadata.symbols) : _metadata.symbols[i].symbol = s

\* an entry of the cache is never replaced or dropped, whatever is called and
\* whatever becomes of the file
CacheEntriesStay ==
    \A s \in DOMAIN _cache : s \in DOMAIN _cache' /\ _cache'[s] = _cache[s]

\* a call on the loader for a cached symbol returns from the cache and leaves
\* it as it is; a call that raises leaves the cache as it is; a call for a
\* listed symbol that is not cached reads its file again, and caches a
\* readable one
LoaderCallStep ==
    (files' = files /\ call' \in LoaderCalls) =>
        LET s == request'.symbol
        IN  /\ s \in DOMAIN _cache =>
                /\ raised' = "none"
                /\ _cache' = _cache
                /\ call' = "load_symbol_data" => ret' = _cache[s]
                /\ ( /\ call' = "get_commodity_data"
                     /\ request'.start_date = None
                     /\ request'.end_date = None ) => ret' = _cache[s].data
                /\ call' = "get_commodity_info" =>
                       ret'.data_points = Len(_cache[s].data)
            /\ raised' # "none" => _cache' = _cache
            /\ ( /\ s \notin DOMAIN _cache
                 /\ _metadata # None \/ files["metadata.json"] = Json(MetadataJson)
                 /\ ListedFile(s) # None
                 /\ ListedFile(s).k = "json" ) =>
                   /\ raised' = "none"
                   /\ _cache' = (s :> ListedFile(s).json) @@ _cache
                   /\ call' = "load_symbol_data" => ret' = ListedFile(s).json

ReturnsKeptPoints ==
    (call = "get_commodity_data" /\ raised = "none") =>
        LET points == _cache[request.symbol].data
            kept == Kept(points, request.start_date, request.end_date)
        IN  /\ Len(ret) = Cardinality(kept)
            /\ \A j \in 1 .. Len(ret) :
                   ret[j] = points[CHOOSE i \in kept :
                                       Cardinality({k \in kept : k <= i}) = j]
            /\ (request.start_date = None /\ request.end_date = None) => ret = points
            /\ ( /\ request.start_date # None
                 /\ request.end_date # None
                 /\ request.start_date.date > request.end_date.date ) => ret = <<>>

\* filtering the cached data of a symbol leaves the cache as it is
FilteringKeepsCache ==
    ( /\ files' = files
      /\ call' = "get_commodity_data"
      /\ request'.symbol \in DOMAIN _cache ) => _cache' = _cache

\* C25: get_commodity_data(symbol, start_date, end_date) returns exactly the
\* symbol's data points whose date d satisfies start_date <= d and
\* d <= end_date (each bound when given, both inclusive) in their original
\* order; all points with neither bound, none with start_date > end_date; the
\* cached data is unchanged by filtering
C25_InclusiveDateFilter ==
    /\ [] ReturnsKeptPoints
    /\ [][FilteringKeepsCache]_vars

\* both bounds were given as the date of one point of data that is not in date
\* order, and that point alone was returned
C25_Witness ==
    /\ call = "get_commodity_data"
    /\ raised = "none"
    /\ request.start_date = BaseDate(DateAt(2))
    /\ request.end_date = BaseDate(DateAt(2))
    /\ Len(_cache[request.symbol].data) = 2
    /\ ret = <<_cache[request.symbol].data[1]>>

\* the statements of _process_symbol between the fetch and its return
InProcessSymbol ==
    pc \in {"log_no_data", "ensure_asset", "insert_daily_prices",
            "calculate_all_indicators", "insert_technical_indicators",
            "log_success", "except"}

\* one entry for every symbol whose attempt has ended and none yet for the one
\* under way, each under the symbol's name, the failed ones with no rows.  A
\* run that a failed log write has ended is not at any of these statements.
OneEntryPerAttempt ==
    /\ pc \in {"loop", "returned"} => Len(etl_logs) = position
    /\ InProcessSymbol => Len(etl_logs) = position - 1
    /\ \A i \in 1 .. Len(etl_logs) :
        /\ etl_logs[i].job_name = symbols_in_order(SymbolsByCategory)[i]
        /\ etl_logs[i].job_type = "daily_update"
        /\ etl_logs[i].status \in {"success", "failed"}
        /\ etl_logs[i].status = "failed" =>
               etl_logs[i].rows_processed = 0 /\ etl_logs[i].asset_id = None

\* the price rows of the fetched frame are in daily_prices
PricesPersisted ==
    \A i \in 1 .. Len(df) : HoldsPriceRow(daily_prices, arg_asset_id, df[i])

\* the indicator rows computed for the fetched frame are in technical_indicators
IndicatorsPersisted ==
    /\ Len(indicators.index) = Len(df)
    /\ \A i \in 1 .. Len(df) :
           HoldsIndicatorRow(technical_indicators, arg_asset_id, indicators, i)

\* an entry is only ever added at the end of the log: 'success' with the
\* number of fetched rows once the price rows and the indicator rows are
\* persisted, 'failed' after an empty fetch or in the exception handler
EntryRecorded ==
    etl_logs' # etl_logs =>
        /\ Len(etl_logs') = Len(etl_logs) + 1
        /\ SubSeq(etl_logs', 1, Len(etl_logs)) = etl_logs
        /\ LET entry == etl_logs'[Len(etl_logs')]
           IN  IF entry.status = "success"
               THEN /\ pc = "log_success"
                    /\ df # <<>>
                    /\ entry.rows_processed = Len(df)
                    /\ entry.asset_id = DbIntValue(arg_asset_id)
                    /\ PricesPersisted
                    /\ IndicatorsPersisted
               ELSE \/ pc = "log_no_data" /\ df = <<>>
                    \/ pc = "except" /\ raised # "none"

\* the price rows are written before the indicator rows, and an attempt whose
\* fetch returned no data writes no asset, price or indicator row
WritesInOrder ==
    /\ daily_prices' # daily_prices => pc = "insert_daily_prices"
    /\ technical_indicators' # technical_indicators =>
           pc = "insert_technical_indicators" /\ PricesPersisted
    /\ (pc = "loop" /\ position' # position /\ df' = <<>>) => pc' = "log_no_data"
    /\ df' = <<>> => UNCHANGED <<assets, daily_prices, technical_indicators>>

\* C22: for every symbol handed to _process_symbol exactly one ETL log entry
\* is recorded for the attempt, provided the log writes succeed: 'success'
\* with rows_processed = the number of fetched rows only after the price rows
\* and then the indicator rows were persisted; 'failed' with rows_processed =
\* 0 when the fetch returned no data (and then nothing else is written) or
\* when a step raised
C22_OneLogEntryPerAttempt ==
    /\ [] OneEntryPerAttempt
    /\ [][EntryRecorded /\ WritesInOrder]_vars

\* the three attempts of a run ended with no data, with two rows persisted,
\* and with an exception handled
C22_Witness ==
    /\ pc = "returned"
    /\ Len(etl_logs) = 3
    /\ etl_logs[1].status = "failed"
    /\ etl_logs[2].status = "success" /\ etl_logs[2].rows_processed = 2
    /\ etl_logs[3].status = "failed"
    /\ Cardinality(DOMAIN daily_prices) = 2
    /\ Cardinality(DOMAIN technical_indicators) = 2
    /\ assets = {[symbol |-> "SI=F", asset_id |-> 1]}

\* C23: run_full_pipeline attempts every symbol of every category exactly once
\* in iteration order, a failure while fetching or persisting one symbol does
\* not stop the later symbols from being attempted, and once the connection
\* has been opened it is closed before run_full_pipeline returns or raises
C23_EverySymbolAttempted ==
    (pc \in {"returned", "raised"} /\ conn # "none") =>
        /\ processing = symbols_in_order(SymbolsByCategory)
        /\ conn = "closed"

\* the part of C23 that holds: the symbols are attempted in iteration order,
\* each at most once, and an opened connection is closed at the exit
AttemptsInOrderAndClosed ==
    /\ processing = SubSeq(symbols_in_order(SymbolsByCategory), 1, position)
    /\ (pc \in {"returned", "raised"} /\ conn # "none") => conn = "closed"
    /\ pc = "returned" => processing = symbols_in_order(SymbolsByCategory)
====
